---- MODULE Spec2Model ----
(***************************************************************************)
(* A model of the Ollama Prometheus exporter: the OllamaExporter object    *)
(* (src/src/exporter.ts), the instruments it writes (src/src/metrics.ts)   *)
(* and the HttpClient it awaits (src/src/http-client.ts).                  *)
(*                                                                         *)
(* One scrape cycle (updateMetrics) is a coroutine: it issues a request,   *)
(* is suspended at the await, and its continuation runs to completion when *)
(* the reply arrives.  Several cycles can be suspended at once, because    *)
(* setInterval fires whether or not the previous cycle has finished.       *)
(***************************************************************************)
EXTENDS Integers, Sequences, FiniteSets, TLC

(***************************************************************************)
(* Bounds of the model                                                     *)
(***************************************************************************)
\* calls of updateMetrics over the whole run
MaxCycles == 2
\* entries of one models list in a /api/tags or /api/ps reply
MaxLen == 2
\* calls of startMetricsLoop over the whole run
MaxTimers == 2
\* calls of shutdown over the whole run
MaxShutdowns == 2
\* calls of FetchHttpClient.request over the whole run
MaxCalls == 2

(***************************************************************************)
(* JSON values.  A field that is absent reads as undefined in JavaScript;  *)
(* the strings and numbers the code tests with || are falsy when they are  *)
(* undefined, "" or 0.                                                     *)
(***************************************************************************)
Undef == "<undefined>"
UndefN == -1
NaN == -2
\* A JSON object or array where a string is expected: one without keys ({}
\* or []), one with the key version ({"version": "0.1.16"}), one with
\* another key ({"foo": "1"} or ["1"]).
NoKeysObject == "<{}>"
VersionObject == "<{version}>"
ForeignObject == "<{foo}>"
Objects == {NoKeysObject, VersionObject, ForeignObject}
\* the fields of an object
Fields(object) ==
    IF object = VersionObject THEN [k \in {"version"} |-> "0.1.16"]
    ELSE IF object = ForeignObject THEN [k \in {"foo"} |-> "1"]
    ELSE [k \in {} |-> ""]

FalsyS(s) == s \in {Undef, ""}
FalsyN(n) == n \in {UndefN, 0, NaN}

\* x || d  on strings
OrS(x, d) == IF FalsyS(x) THEN d ELSE x
\* x || d  on numbers
OrN(x, d) == IF FalsyN(x) THEN d ELSE x

(***************************************************************************)
(* prom-client instruments.  A labelled instrument is a function from the  *)
(* tuple of its label values to the value of the series; a series that was *)
(* removed or never written is outside the domain.  A call either returns  *)
(* the new instrument or throws.                                           *)
(***************************************************************************)
Ret(g) == [threw |-> FALSE, g |-> g]
Throw(g) == [threw |-> TRUE, g |-> g]

\* labels(...args) / remove(...args): an object given as first argument is
\* taken as the label set, and is rejected when it has a key that is no
\* label name; otherwise the arguments are the label values, and are
\* rejected when their number is not that of labelNames.
LabelsRejected(labelNames, args) ==
    IF Len(args) > 0 /\ args[1] \in Objects
    THEN \E k \in DOMAIN Fields(args[1]) : \A i \in 1..Len(labelNames) : labelNames[i] # k
    ELSE Len(labelNames) # Len(args)

\* a label name the label set has no value for
NoLabel == "<no label>"
\* the series of the call: the label values in the order of labelNames
LabelSet(labelNames, args) ==
    IF Len(args) > 0 /\ args[1] \in Objects
    THEN [i \in 1..Len(labelNames) |->
             IF labelNames[i] \in DOMAIN Fields(args[1]) THEN Fields(args[1])[labelNames[i]]
             ELSE NoLabel]
    ELSE args

\* the series k written with value
Written(g, k, value) == [x \in DOMAIN g \cup {k} |-> IF x = k THEN value ELSE g[x]]

\* gauge.labels(...args).set(value)
GaugeSet(g, labelNames, args, value) ==
    IF LabelsRejected(labelNames, args)
    THEN Throw(g)
    ELSE Ret(Written(g, LabelSet(labelNames, args), value))

\* gauge.remove(...args)
GaugeRemove(g, labelNames, args) ==
    IF LabelsRejected(labelNames, args)
    THEN Throw(g)
    ELSE Ret([k \in DOMAIN g \ {LabelSet(labelNames, args)} |-> g[k]])

\* counter.labels(...args).inc()
CounterInc(g, labelNames, args) ==
    IF LabelsRejected(labelNames, args)
    THEN Throw(g)
    ELSE Ret(Written(g, LabelSet(labelNames, args),
                     (IF LabelSet(labelNames, args) \in DOMAIN g
                      THEN g[LabelSet(labelNames, args)] ELSE 0) + 1))

\* labelNames of the instruments
VersionLabels == <<"version">>
ModelInfoLabels ==
    <<"model_name", "family", "format", "parameter_size", "quantization_level", "parent_model">>
ModelNameLabels == <<"model_name">>
OperationLabels == <<"operation">>
StatusLabels == <<"status">>

\* the names that have a series in a labelled instrument
SeriesNames(g) == {k[1] : k \in DOMAIN g}

(***************************************************************************)
(* Replies of the upstream server, as the HttpClient hands them over.      *)
(***************************************************************************)
\* the value apiRequest returns for every failure
Null == [isnull |-> TRUE, version |-> Undef, hasModels |-> FALSE, models |-> <<>>]

\* an entry of the models list of /api/tags (OllamaModel); isnull marks a
\* JSON null in the place of the object
NoDetails ==
    [absent |-> TRUE, family |-> Undef, format |-> Undef, parameter_size |-> Undef,
     quantization_level |-> Undef, parent_model |-> Undef]
EmptyObject == [NoDetails EXCEPT !.absent = FALSE]

ModelA ==
    [isnull |-> FALSE, name |-> "A", size |-> 7, modified_at |-> "2023-12-07T09:32:18Z",
     details |-> [absent |-> FALSE, family |-> "llama", format |-> "gguf",
                  parameter_size |-> "7B", quantization_level |-> "Q4_0",
                  parent_model |-> Undef]]
\* the same model after an update: other size, other quantization, and a
\* modified_at that Date cannot parse
ModelA2 ==
    [isnull |-> FALSE, name |-> "A", size |-> 8, modified_at |-> "yesterday",
     details |-> [absent |-> FALSE, family |-> "llama", format |-> "gguf",
                  parameter_size |-> "7B", quantization_level |-> "Q8_0",
                  parent_model |-> ""]]
ModelB ==
    [isnull |-> FALSE, name |-> "B", size |-> 9, modified_at |-> Undef,
     details |-> NoDetails]
\* an object without any of the fields
ModelNoName ==
    [isnull |-> FALSE, name |-> Undef, size |-> UndefN, modified_at |-> "",
     details |-> NoDetails]
NullEntry ==
    [isnull |-> TRUE, name |-> Undef, size |-> UndefN, modified_at |-> Undef,
     details |-> NoDetails]

TagEntries == <<ModelA, ModelA2, ModelB, ModelNoName, NullEntry>>

\* an entry of the models list of /api/ps (OllamaRunningModel)
RunningA == [isnull |-> FALSE, name |-> "A", size_vram |-> 4]
RunningA0 == [isnull |-> FALSE, name |-> "A", size_vram |-> 0]
RunningB == [isnull |-> FALSE, name |-> "B", size_vram |-> UndefN]
RunningNull == [isnull |-> TRUE, name |-> Undef, size_vram |-> UndefN]

PsEntries == <<RunningA, RunningA0, RunningB, RunningNull>>

\* the lists of at most MaxLen entries drawn, in order, from a sequence of
\* entries
Increasing(ix) == \A i \in 1..(Len(ix) - 1) : ix[i] < ix[i + 1]
Lists(entries) ==
    LET Idx == UNION {[1..l -> 1..Len(entries)] : l \in 0..MaxLen}
    IN {[i \in 1..Len(ix) |-> entries[ix[i]]] : ix \in {x \in Idx : Increasing(x)}}

\* the JSON bodies of the three endpoints
VersionBodies(versions) == {[Null EXCEPT !.isnull = FALSE, !.version = v] : v \in versions}
ModelsBodies(entries) ==
    {[Null EXCEPT !.isnull = FALSE, !.hasModels = TRUE, !.models = l] : l \in Lists(entries)}
        \cup {[Null EXCEPT !.isnull = FALSE]}
\* An upstream server: the bodies it can answer with, per endpoint.  The
\* inventory and the running models are reconciled by code that shares no
\* state, so each is explored in full against a small choice of the other.
Upstream ==
    [version |-> VersionBodies({"0.1.15", ForeignObject}),
     tags |-> ModelsBodies(TagEntries),
     ps |-> ModelsBodies(<<RunningA>>)]
RunningUpstream ==
    [version |-> VersionBodies({"0.1.15", ForeignObject}),
     tags |-> ModelsBodies(<<ModelA>>),
     ps |-> ModelsBodies(PsEntries)]
\* for cycles run one after another, a server whose three bodies vary
TwiceUpstream ==
    [version |-> VersionBodies({"0.1.15"}),
     tags |-> ModelsBodies(<<ModelA, ModelA2, ModelB>>),
     ps |-> ModelsBodies(<<RunningA, RunningNull>>)]
\* a server whose list of running models can hold a null before its entries
ScrapeUpstream ==
    [version |-> VersionBodies({"0.1.15"}),
     tags |-> ModelsBodies(<<ModelA>>),
     ps |-> ModelsBodies(<<RunningNull, RunningA, RunningB>>)]
\* a server whose inventory changes from one cycle to the next
HealUpstream ==
    [version |-> VersionBodies({"0.1.15"}),
     tags |-> ModelsBodies(<<ModelA, ModelB>>),
     ps |-> {[Null EXCEPT !.isnull = FALSE, !.hasModels = TRUE, !.models = <<RunningA>>]}]
\* a server that is upgraded between two probes, or reports no version
VersionUpstream ==
    [version |-> VersionBodies({"0.1.15", "0.1.16", Undef, "", NoKeysObject, VersionObject,
                                ForeignObject}),
     tags |-> {[Null EXCEPT !.isnull = FALSE, !.hasModels = TRUE, !.models = <<ModelA>>]},
     ps |-> {[Null EXCEPT !.isnull = FALSE, !.hasModels = TRUE, !.models = <<RunningA>>]}]
\* for the metrics loop, a server with one model, which is loaded
LoopUpstream ==
    [version |-> VersionBodies({"0.1.15"}),
     tags |-> {[Null EXCEPT !.isnull = FALSE, !.hasModels = TRUE, !.models = <<ModelA>>]},
     ps |-> {[Null EXCEPT !.isnull = FALSE, !.hasModels = TRUE, !.models = <<RunningA>>]}]

\* what awaiting httpClient.request(...) yields: the client throws, returns
\* null, or returns a response whose json() resolves or rejects
FailedReplies ==
    {[kind |-> "throws", ok |-> FALSE, status |-> 0],
     [kind |-> "null", ok |-> FALSE, status |-> 0],
     [kind |-> "response", ok |-> FALSE, status |-> 500]}
OkResponse == [kind |-> "response", ok |-> TRUE, status |-> 200]
JsonResults(bodies) ==
    {[rejects |-> TRUE, value |-> Null]}
        \cup {[rejects |-> FALSE, value |-> b] : b \in bodies \cup {Null}}

(***************************************************************************)
(* apiRequest                                                              *)
(***************************************************************************)
\* The try block of apiRequest on what the HttpClient and response.json()
\* yield: the value it would return, or the exception raised in it.
ApiRequestTry(reply, json) ==
    IF reply.kind = "throws" THEN [threw |-> TRUE, data |-> Null]
    ELSE IF reply.kind = "null" THEN [threw |-> FALSE, data |-> Null]
    ELSE IF ~reply.ok THEN [threw |-> FALSE, data |-> Null]
    ELSE IF json.rejects THEN [threw |-> TRUE, data |-> Null]
    ELSE [threw |-> FALSE, data |-> json.value]

\* apiRequest without its catch
ApiRequestNoCatch(r) == r

\* the catch of apiRequest: every exception becomes null
ApiRequestCatch(r) == IF r.threw THEN [threw |-> FALSE, data |-> Null] ELSE r

ApiRequest(reply, json) == ApiRequestCatch(ApiRequestTry(reply, json))

\* if (!data), if (versionData)
Truthy(data) == ~data.isnull

(***************************************************************************)
(* checkOllamaHealth, after the await                                      *)
(***************************************************************************)
\* the series of the version reported replaces the others
CheckOllamaHealthResets(versionInfo, versionData) ==
    IF Truthy(versionData)
    THEN LET r == GaugeSet([k \in {} |-> 0], VersionLabels,
                           <<OrS(versionData.version, "unknown")>>, 1)
         IN [threw |-> r.threw, up |-> TRUE, versionInfo |-> r.g]
    ELSE [threw |-> FALSE, up |-> FALSE, versionInfo |-> versionInfo]

\* returns [threw, up, versionInfo]
CheckOllamaHealth(versionInfo, versionData) ==
    IF Truthy(versionData)
    THEN LET r == GaugeSet(versionInfo, VersionLabels,
                           <<OrS(versionData.version, "unknown")>>, 1)
         IN [threw |-> r.threw, up |-> TRUE, versionInfo |-> r.g]
    ELSE [threw |-> FALSE, up |-> FALSE, versionInfo |-> versionInfo]

(***************************************************************************)
(* updateModelMetrics, the try block                                       *)
(*                                                                         *)
(* m is the part of the state the block works on:                          *)
(*   info, size, modified   the three per-model gauges                     *)
(*   total                  models_total                                   *)
(*   last                   lastModels, a Map: the sequence of its         *)
(*                          [key, value] entries in insertion order        *)
(***************************************************************************)
MapKeys(map) == [i \in 1..Len(map) |-> map[i].key]
MapKeySet(map) == {map[i].key : i \in 1..Len(map)}

\* new Map(pairs): a key keeps the place of its first occurrence and the
\* value of its last
RECURSIVE MapFrom(_, _)
MapFrom(acc, pairs) ==
    IF pairs = <<>> THEN acc
    ELSE LET p == Head(pairs)
         IN IF p.key \in MapKeySet(acc)
            THEN MapFrom([i \in 1..Len(acc) |-> IF acc[i].key = p.key THEN p ELSE acc[i]],
                         Tail(pairs))
            ELSE MapFrom(Append(acc, p), Tail(pairs))

\* new Date(s).getTime() / 1000
DateSeconds(s) == IF s = "2023-12-07T09:32:18Z" THEN 1701941538 ELSE NaN

ModelName(model) == OrS(model.name, "unknown")

\* details = model.details || {}
ModelDetails(model) == IF model.details.absent THEN EmptyObject ELSE model.details

ModelInfoArgs(model) ==
    LET details == ModelDetails(model)
    IN <<ModelName(model),
         OrS(details.family, "unknown"),
         OrS(details.format, "unknown"),
         OrS(details.parameter_size, "unknown"),
         OrS(details.quantization_level, "unknown"),
         OrS(details.parent_model, "unknown")>>

\* OLLAMA_MODEL_SIZE_BYTES.remove(oldModel)
RemoveModelSize(g, oldModel) == GaugeRemove(g, ModelNameLabels, <<oldModel>>)
\* OLLAMA_MODEL_MODIFIED_TIMESTAMP.remove(oldModel)
RemoveModelModified(g, oldModel) == GaugeRemove(g, ModelNameLabels, <<oldModel>>)
\* OLLAMA_MODEL_INFO.remove(oldModel)
RemoveModelInfo(g, oldModel) == GaugeRemove(g, ModelInfoLabels, <<oldModel>>)

\* what the statements of the try block have done so far: [threw, m]
Started(m) == [threw |-> FALSE, m |-> m]
\* a registry call on the gauge kept in a field of m has returned or thrown
Store(m, field, r) == [threw |-> r.threw, m |-> [m EXCEPT ![field] = r.g]]

\* the three removals of one iteration; a statement runs unless an earlier
\* one threw
RemoveSizeOf(s, oldModel) ==
    IF s.threw THEN s ELSE Store(s.m, "size", RemoveModelSize(s.m.size, oldModel))
RemoveModifiedOf(s, oldModel) ==
    IF s.threw THEN s ELSE Store(s.m, "modified", RemoveModelModified(s.m.modified, oldModel))
RemoveInfoOf(s, oldModel) ==
    IF s.threw THEN s ELSE Store(s.m, "info", RemoveModelInfo(s.m.info, oldModel))
RemoveOldModel(m, oldModel) ==
    RemoveInfoOf(RemoveModifiedOf(RemoveSizeOf(Started(m), oldModel), oldModel), oldModel)

\* for (const oldModel of this.lastModels.keys()) ...
RECURSIVE RemoveOldModels(_, _, _)
RemoveRest(s, keys, currentModels) ==
    IF s.threw THEN s ELSE RemoveOldModels(s.m, keys, currentModels)
RemoveOldModels(m, keys, currentModels) ==
    IF keys = <<>> THEN Started(m)
    ELSE IF Head(keys) \in currentModels
    THEN RemoveOldModels(m, Tail(keys), currentModels)
    ELSE RemoveRest(RemoveOldModel(m, Head(keys)), Tail(keys), currentModels)

\* OLLAMA_MODEL_INFO.labels(...).set(1)
SetInfo(s, model) ==
    IF s.threw THEN s
    ELSE Store(s.m, "info", GaugeSet(s.m.info, ModelInfoLabels, ModelInfoArgs(model), 1))
\* OLLAMA_MODEL_SIZE_BYTES.labels(name).set(size)
SetSize(s, model) ==
    IF s.threw THEN s
    ELSE Store(s.m, "size",
               GaugeSet(s.m.size, ModelNameLabels, <<ModelName(model)>>, OrN(model.size, 0)))
\* the inner try ... catch: an exception leaves the gauge as it was
SetModifiedCatch(s, r) == IF r.threw THEN s ELSE Store(s.m, "modified", r)
\* if (modifiedAt) { ... set(dt.getTime() / 1000) ... }
SetModified(s, model) ==
    IF s.threw \/ OrS(model.modified_at, "") = "" THEN s
    ELSE SetModifiedCatch(s, GaugeSet(s.m.modified, ModelNameLabels, <<ModelName(model)>>,
                                      DateSeconds(OrS(model.modified_at, ""))))
\* the body of  for (const model of models)
SetModel(m, model) == SetModified(SetSize(SetInfo(Started(m), model), model), model)

RECURSIVE SetModels(_, _)
SetRest(s, models) == IF s.threw THEN s ELSE SetModels(s.m, models)
SetModels(m, models) ==
    IF models = <<>> THEN Started(m)
    ELSE SetRest(SetModel(m, Head(models)), Tail(models))

\* const models = data.models || []
DataModels(data) == IF data.hasModels THEN data.models ELSE <<>>
\* new Set(models.map((m) => m.name || 'unknown'))
CurrentModels(models) == {ModelName(models[i]) : i \in 1..Len(models)}
\* models_total is added to instead of set
SetTotalAdds(s, models) ==
    IF s.threw THEN s ELSE [s EXCEPT !.m.total = s.m.total + Len(models)]

\* OLLAMA_MODELS_TOTAL.set(models.length)
SetTotal(s, models) == IF s.threw THEN s ELSE [s EXCEPT !.m.total = Len(models)]
SetAll(s, models) == IF s.threw THEN s ELSE SetModels(s.m, models)
\* this.lastModels = new Map(models.map((m) => [m.name || 'unknown', m]))
SetLastModels(s, models) ==
    IF s.threw THEN s
    ELSE [s EXCEPT !.m.last =
             MapFrom(<<>>, [i \in 1..Len(models) |->
                               [key |-> ModelName(models[i]), value |-> models[i]]])]

\* the try block on the list models: [threw, m].  models.map reads .name of
\* every entry, so that a null entry throws before anything is written.
ProcessList(m, models) ==
    IF \E i \in 1..Len(models) : models[i].isnull
    THEN [threw |-> TRUE, m |-> m]
    ELSE SetLastModels(
             SetAll(SetTotal(RemoveOldModels(m, MapKeys(m.last), CurrentModels(models)),
                             models),
                    models),
             models)
ProcessModels(m, data) == ProcessList(m, DataModels(data))

\* return true, or the catch: return false
ModelsResult(r) == [ok |-> ~r.threw, m |-> r.m]
\* updateModelMetrics without  if (!data) return false
UpdateModelMetricsNoGuard(m, data) == ModelsResult(ProcessModels(m, data))

\* updateModelMetrics after the await: [ok, m]
UpdateModelMetrics(m, data) ==
    IF ~Truthy(data) THEN [ok |-> FALSE, m |-> m]
    ELSE ModelsResult(ProcessModels(m, data))

(***************************************************************************)
(* updateRunningMetrics, the try block                                     *)
(*                                                                         *)
(*   running, memory   the two per-model gauges                            *)
(*   last              lastRunningModels                                   *)
(***************************************************************************)
\* for (const oldModel of this.lastRunningModels) ...: two removals per
\* name, none of which depends on another
RECURSIVE ClearRunning(_, _)
ClearRunning(r, old) ==
    IF old = {} THEN [threw |-> FALSE, r |-> r]
    ELSE LET oldModel == CHOOSE x \in old : TRUE
             r1 == GaugeRemove(r.running, ModelNameLabels, <<oldModel>>)
             r2 == GaugeRemove(r.memory, ModelNameLabels, <<oldModel>>)
         IN IF r1.threw THEN [threw |-> TRUE, r |-> r]
            ELSE IF r2.threw THEN [threw |-> TRUE, r |-> [r EXCEPT !.running = r1.g]]
            ELSE ClearRunning([r EXCEPT !.running = r1.g, !.memory = r2.g],
                              old \ {oldModel})

\* for (const model of models) ...: [threw, r, currentRunning]
RECURSIVE SetRunning(_, _, _)
SetRunning(r, models, currentRunning) ==
    IF models = <<>> THEN [threw |-> FALSE, r |-> r, currentRunning |-> currentRunning]
    ELSE IF Head(models).isnull
    THEN \* model.name of null
         [threw |-> TRUE, r |-> r, currentRunning |-> currentRunning]
    ELSE LET name == OrS(Head(models).name, "unknown")
             sizeVram == OrN(Head(models).size_vram, 0)
             r1 == GaugeSet(r.running, ModelNameLabels, <<name>>, 1)
             r2 == IF sizeVram > 0
                   THEN GaugeSet(r.memory, ModelNameLabels, <<name>>, sizeVram)
                   ELSE Ret(r.memory)
         IN IF r1.threw THEN [threw |-> TRUE, r |-> r, currentRunning |-> currentRunning]
            ELSE IF r2.threw
            THEN [threw |-> TRUE, r |-> [r EXCEPT !.running = r1.g],
                  currentRunning |-> currentRunning \cup {name}]
            ELSE SetRunning([r EXCEPT !.running = r1.g, !.memory = r2.g],
                            Tail(models), currentRunning \cup {name})

ProcessRunning(r, data) ==
    LET cleared == ClearRunning(r, r.last)
        models == IF data.hasModels THEN data.models ELSE <<>>
        written == SetRunning(cleared.r, models, {})
    IN IF cleared.threw THEN [threw |-> TRUE, r |-> cleared.r]
       ELSE IF written.threw THEN [threw |-> TRUE, r |-> written.r]
       ELSE [threw |-> FALSE, r |-> [written.r EXCEPT !.last = written.currentRunning]]

\* updateRunningMetrics without  if (!data) return false
UpdateRunningMetricsNoGuard(r, data) ==
    [ok |-> ~ProcessRunning(r, data).threw, r |-> ProcessRunning(r, data).r]

\* updateRunningMetrics after the await: [ok, r]
UpdateRunningMetrics(r, data) ==
    IF ~Truthy(data) THEN [ok |-> FALSE, r |-> r]
    ELSE LET p == ProcessRunning(r, data)
         IN [ok |-> ~p.threw, r |-> p.r]

(***************************************************************************)
(* State                                                                   *)
(***************************************************************************)
VARIABLES
    \* the instruments of metrics.ts
    OLLAMA_UP,
    OLLAMA_VERSION_INFO,
    OLLAMA_MODELS_TOTAL,
    OLLAMA_MODEL_INFO,
    OLLAMA_MODEL_SIZE_BYTES,
    OLLAMA_MODEL_MODIFIED_TIMESTAMP,
    OLLAMA_RUNNING_MODELS,
    OLLAMA_MODEL_MEMORY_BYTES,
    OLLAMA_EXPORTER_SCRAPE_DURATION,
    OLLAMA_EXPORTER_SCRAPES_TOTAL,
    OLLAMA_EXPORTER_LAST_SCRAPE_TIMESTAMP,
    \* the fields of OllamaExporter
    shutdownEvent,
    lastModels,
    lastRunningModels,
    metricsInterval,
    \* the event loop: the interval timers that are armed, those of them
    \* whose period has run out since they were armed or last fired, the
    \* calls of updateMetrics suspended at an await (oldest first), the clock
    timers,
    elapsed,
    cycles,
    now,
    \* observations: calls of updateMetrics so far, 'shutdown' events
    \* emitted, whether a call of updateMetrics rejected, the last step
    started,
    emitted,
    rejected,
    ev,
    \* main of index.ts: where it is, the exit code of the process, whether
    \* the HTTP server listens, whether an 'error' event of the server waits
    \* to be emitted, the health probe of the validate-only mode
    main,
    exitCode,
    listening,
    serverError,
    probe,
    \* a call of FetchHttpClient.request
    client,
    \* history: the bodies read by the cycle in flight, and the bodies and
    \* the result of the cycles that have ended
    hist

registry ==
    <<OLLAMA_UP, OLLAMA_VERSION_INFO, OLLAMA_MODELS_TOTAL, OLLAMA_MODEL_INFO,
      OLLAMA_MODEL_SIZE_BYTES, OLLAMA_MODEL_MODIFIED_TIMESTAMP, OLLAMA_RUNNING_MODELS,
      OLLAMA_MODEL_MEMORY_BYTES, OLLAMA_EXPORTER_SCRAPE_DURATION,
      OLLAMA_EXPORTER_SCRAPES_TOTAL, OLLAMA_EXPORTER_LAST_SCRAPE_TIMESTAMP>>
snapshots == <<lastModels, lastRunningModels>>
inventory ==
    <<OLLAMA_MODELS_TOTAL, OLLAMA_MODEL_INFO, OLLAMA_MODEL_SIZE_BYTES,
      OLLAMA_MODEL_MODIFIED_TIMESTAMP, lastModels>>
runningState == <<OLLAMA_RUNNING_MODELS, OLLAMA_MODEL_MEMORY_BYTES, lastRunningModels>>
scheduler == <<shutdownEvent, metricsInterval, timers, elapsed, emitted>>
program == <<main, exitCode, listening, serverError, probe>>
\* what no method of OllamaExporter reads or writes
outside == <<program, client, hist>>
vars == <<registry, snapshots, scheduler, cycles, now, started, rejected, ev, outside>>

NoSeries == [k \in {} |-> 0]
\* metricsInterval before startMetricsLoop
NoTimer == 0

\* counter value of a status, 0 when the series does not exist
Scrapes(status) ==
    IF <<status>> \in DOMAIN OLLAMA_EXPORTER_SCRAPES_TOTAL
    THEN OLLAMA_EXPORTER_SCRAPES_TOTAL[<<status>>]
    ELSE 0

\* what a step that is no reply to a cycle leaves in ev
Quiet(op) == [op |-> op, done |-> FALSE]

\* the process runs
NotExited == -1
\* checkOllamaHealth was not called by main
NoProbe == [await |-> "none", endpoint |-> "version", requests |-> <<>>]
\* what fetch did: it resolved with a Response, or it rejected
Fetched(kind, ok, status, statusText) ==
    [kind |-> kind, ok |-> ok, status |-> status, statusText |-> statusText]
NotFetched == Fetched("none", FALSE, 0, "")
\* FetchHttpClient.request was not called
NoCall ==
    [stage |-> "idle", timeout |-> 0, signal |-> FALSE, timer |-> "none",
     aborted |-> FALSE, callerAborted |-> FALSE, rejected |-> FALSE, isnull |-> FALSE,
     ok |-> FALSE, status |-> 0, statusText |-> "", fetched |-> NotFetched, calls |-> 0,
     method |-> "", body |-> Undef]
\* the bodies a cycle has read: Null where none was read
NoBodies == [version |-> Null, tags |-> Null, ps |-> Null]
NoHistory == [cur |-> NoBodies, ended |-> <<>>]

\* An instrument without labels starts with the value 0; a labelled one
\* starts without series.
Init ==
    /\ OLLAMA_UP = 0
    /\ OLLAMA_VERSION_INFO = NoSeries
    /\ OLLAMA_MODELS_TOTAL = 0
    /\ OLLAMA_MODEL_INFO = NoSeries
    /\ OLLAMA_MODEL_SIZE_BYTES = NoSeries
    /\ OLLAMA_MODEL_MODIFIED_TIMESTAMP = NoSeries
    /\ OLLAMA_RUNNING_MODELS = NoSeries
    /\ OLLAMA_MODEL_MEMORY_BYTES = NoSeries
    /\ OLLAMA_EXPORTER_SCRAPE_DURATION = NoSeries
    /\ OLLAMA_EXPORTER_SCRAPES_TOTAL = NoSeries
    /\ OLLAMA_EXPORTER_LAST_SCRAPE_TIMESTAMP = 0
    /\ shutdownEvent = FALSE
    /\ lastModels = <<>>
    /\ lastRunningModels = {}
    /\ metricsInterval = NoTimer
    /\ timers = {}
    /\ elapsed = {}
    /\ cycles = <<>>
    /\ now = 1
    /\ started = 0
    /\ emitted = 0
    /\ rejected = FALSE
    /\ ev = Quiet("init")
    /\ main = "init"
    /\ exitCode = NotExited
    /\ listening = FALSE
    /\ serverError = FALSE
    /\ probe = NoProbe
    /\ client = NoCall
    /\ hist = NoHistory

(***************************************************************************)
(* updateMetrics                                                           *)
(*                                                                         *)
(* A suspended call is a record:                                           *)
(*   endpoint, await   the request it awaits, and whether it awaits the    *)
(*                     HttpClient ("request") or response.json() ("json"), *)
(*                     or the call it awaited has settled and its own      *)
(*                     continuation is a pending promise job ("resume")    *)
(*   job               the place of that job in the queue of promise jobs, *)
(*                     0 when none is pending                              *)
(*   success           the variable success                                *)
(*   todo              the requests it has still to issue                  *)
(*   requests          the requests it has issued (the request history     *)
(*                     of the HttpClient)                                  *)
(*   health, inventory, running                                            *)
(*                     how its three steps ended: "ok", "failed" (the      *)
(*                     step returned false), "threw", or not run           *)
(*                                                                         *)
(* A reply is handled in two promise jobs.  In the first the function that *)
(* awaits apiRequest resumes (checkOllamaHealth, updateModelMetrics or     *)
(* updateRunningMetrics) and runs to its return; in the second, queued by  *)
(* that return, updateMetrics resumes and runs to its next await or to its *)
(* end.  Jobs run in the order they were queued, and the callbacks of      *)
(* timers, of the HTTP server and of signals run only when none is         *)
(* pending.                                                                *)
(***************************************************************************)
\* await this.apiRequest(endpoint) for the next endpoint of c
IssueRequest(c) ==
    [c EXCEPT !.endpoint = Head(c.todo), !.todo = Tail(c.todo), !.await = "request",
              !.job = 0, !.requests = Append(c.requests, Head(c.todo))]

\* a call of updateMetrics up to its first await: success = true, and the
\* version request of checkOllamaHealth is issued
NewCycle ==
    IssueRequest([endpoint |-> "none", await |-> "request", job |-> 0, success |-> TRUE,
                  todo |-> <<"version">>, requests |-> <<>>,
                  health |-> "pending", inventory |-> "skipped", running |-> "skipped"])

CanStart == started < MaxCycles

\* time passes between two calls of updateMetrics
BeginUpdateMetrics ==
    /\ cycles' = Append(cycles, NewCycle)
    /\ started' = started + 1
    /\ now' = now + 1

RemoveAt(seq, i) == [j \in 1..(Len(seq) - 1) |-> IF j < i THEN seq[j] ELSE seq[j + 1]]

\* what the await of cycle c can yield, with upstream server u
NoJson == [rejects |-> FALSE, value |-> Null]
Outcomes(c, u) ==
    IF c.await = "request"
    THEN {<<reply, NoJson>> : reply \in FailedReplies}
    ELSE {<<OkResponse, json>> : json \in JsonResults(u[c.endpoint])}

\* how the request failed, "none" when a body was read
FailureKind(o) ==
    IF o[1].kind # "response" THEN o[1].kind
    ELSE IF ~o[1].ok THEN "status"
    ELSE IF o[2].rejects THEN "json"
    ELSE "none"

\* histogram.startTimer(labels) ... endTimer(): one more observation
Observe(h, operation) ==
    [k \in DOMAIN h \cup {<<operation>>} |->
        IF k = <<operation>> THEN (IF k \in DOMAIN h THEN h[k] ELSE 0) + 1 ELSE h[k]]

\* OLLAMA_UP.set(ollamaUp ? 1 : 0)
UpValue(ollamaUp) == IF ollamaUp THEN 1 ELSE 0

\* the updates run whatever the probe said
StepsAfterHealthAlways(ollamaUp) == <<"tags", "ps">>
\* the two updates in the other order
StepsAfterHealthSwapped(ollamaUp) == IF ollamaUp THEN <<"ps", "tags">> ELSE <<>>

\* the branches of  if (!ollamaUp) ... else ...: the requests still to issue
StepsAfterHealth(ollamaUp) == IF ollamaUp THEN <<"tags", "ps">> ELSE <<>>

\* success after checkOllamaHealth
AfterHealth(success, ollamaUp) == IF ~ollamaUp THEN FALSE ELSE success
\* success after updateModelMetrics
AfterModelMetrics(success, ok) == IF ~ok THEN FALSE ELSE success
\* the result of updateRunningMetrics is dropped
AfterRunningMetricsIgnored(success, ok) == success

\* success after updateRunningMetrics
AfterRunningMetrics(success, ok) == IF ~ok THEN FALSE ELSE success

\* the timestamp is set without the test of success
LastScrapeWrittenAlways(threw, success) == ~threw

\* if (success) OLLAMA_EXPORTER_LAST_SCRAPE_TIMESTAMP.set(Date.now() / 1000)
LastScrapeWritten(threw, success) == ~threw /\ success

\* updateMetrics without its catch
UpdateMetricsNoCatch(threw, success) == [rejected |-> threw, success |-> success]

\* the catch of updateMetrics
UpdateMetricsCatch(threw, success) ==
    [rejected |-> FALSE, success |-> IF threw THEN FALSE ELSE success]

\* const status = success ? 'success' : 'error'
Status(success) == IF success THEN "success" ELSE "error"

\* the promise jobs that are pending: the continuations of updateMetrics
\* whose awaited call has settled
JobsPending == Cardinality({i \in 1..Len(cycles) : cycles[i].await = "resume"})
\* the queue of promise jobs is empty
NoJobPending == JobsPending = 0
\* The event loop takes its next callback (of a timer, of the HTTP server,
\* of a signal, of the network): the queue of promise jobs is empty, and no
\* 'error' of the server waits to be emitted, which comes before them.
NextCallback == NoJobPending /\ ~serverError
\* What the await of cycle c can yield now.  While an 'error' of the server
\* waits to be emitted nothing has come from the network: the call can
\* only have failed at once (the client threw, or fetch rejected before it
\* sent anything and request returned null).
Replies(c, u) ==
    {o \in Outcomes(c, u) : ~serverError \/ o[1].kind \in {"throws", "null"}}

\* the first job of the queue has run: the others move up
Dequeued(cs) ==
    [j \in 1..Len(cs) |-> IF cs[j].job > 0 THEN [cs[j] EXCEPT !.job = cs[j].job - 1]
                          ELSE cs[j]]

\* The end of updateMetrics for cycle i: the timestamp, the catch, the
\* counter.  threw: an exception reached the catch; success: the variable
\* when the try block was left.
Finish(i, threw, success) ==
    LET out == UpdateMetricsCatch(threw, success)
    IN /\ cycles' = RemoveAt(Dequeued(cycles), i)
       /\ OLLAMA_EXPORTER_LAST_SCRAPE_TIMESTAMP' =
              IF LastScrapeWritten(threw, success)
              THEN now
              ELSE OLLAMA_EXPORTER_LAST_SCRAPE_TIMESTAMP
       /\ IF out.rejected
          THEN /\ rejected' = TRUE
               /\ UNCHANGED OLLAMA_EXPORTER_SCRAPES_TOTAL
          ELSE /\ rejected' = rejected
               /\ OLLAMA_EXPORTER_SCRAPES_TOTAL' =
                      CounterInc(OLLAMA_EXPORTER_SCRAPES_TOTAL, StatusLabels,
                                 <<Status(out.success)>>).g

\* how a step ended: it threw, it returned true, it returned false
StepEnded(threw, ok) == IF threw THEN "threw" ELSE IF ok THEN "ok" ELSE "failed"

\* What the first job of a reply leaves in ev: the step, the cycle after
\* it, how the request failed, what apiRequest did (apiThrew, data) and
\* whether the awaited call threw.  The cycle has not ended.
Event(op, c, o, api, threw) ==
    [op |-> op, done |-> FALSE, failure |-> FailureKind(o),
     apiThrew |-> api.threw, data |-> api.data, threw |-> threw,
     health |-> c.health, inventory |-> c.inventory, running |-> c.running,
     requests |-> c.requests, status |-> "pending", wrote |-> FALSE]

\* What the second job leaves in ev: the step whose result updateMetrics
\* took, the cycle after the job, whether the cycle ended with it (done),
\* whether an exception reached the catch of updateMetrics (threw), the
\* status it counted and whether it wrote the timestamp.
Resumption(step, c, done, threw) ==
    [op |-> "resume", step |-> step, done |-> done, threw |-> threw,
     health |-> c.health, inventory |-> c.inventory, running |-> c.running,
     requests |-> c.requests,
     status |-> IF done THEN Status(UpdateMetricsCatch(threw, c.success).success)
                ELSE "pending",
     wrote |-> done /\ LastScrapeWritten(threw, c.success)]

\* The awaited call of cycle i settles, leaving the cycle as c: the
\* continuation of updateMetrics is queued behind the jobs that are pending.
Suspend(i, op, c, o, api, threw) ==
    /\ cycles' = [cycles EXCEPT ![i] = [c EXCEPT !.await = "resume",
                                                 !.job = JobsPending + 1]]
    /\ ev' = Event(op, c, o, api, threw)
    /\ UNCHANGED <<OLLAMA_EXPORTER_SCRAPES_TOTAL,
                   OLLAMA_EXPORTER_LAST_SCRAPE_TIMESTAMP, rejected>>

\* the response headers of cycle i arrive with a 2xx status; the cycle now
\* awaits response.json()
ResponseHeaders(i) ==
    /\ cycles[i].await = "request"
    /\ ~serverError
    /\ cycles' = [cycles EXCEPT ![i].await = "json"]
    /\ ev' = Quiet("headers")
    /\ UNCHANGED <<registry, snapshots, scheduler, now, started, rejected>>

\* the await of checkOllamaHealth ends for cycle i, and checkOllamaHealth
\* runs to its return
VersionReply(i, u) ==
    /\ cycles[i].endpoint = "version"
    /\ cycles[i].await # "resume"
    /\ \E o \in Replies(cycles[i], u) :
        LET api == ApiRequest(o[1], o[2])
            h == CheckOllamaHealth(OLLAMA_VERSION_INFO, api.data)
            threw == api.threw \/ h.threw
        IN /\ OLLAMA_VERSION_INFO' = IF api.threw THEN OLLAMA_VERSION_INFO ELSE h.versionInfo
           /\ Suspend(i, "version", [cycles[i] EXCEPT !.health = StepEnded(threw, h.up)],
                      o, api, threw)
    /\ UNCHANGED <<OLLAMA_UP, inventory, runningState, OLLAMA_EXPORTER_SCRAPE_DURATION,
                   scheduler, now, started>>

\* what updateModelMetrics reads and writes
InventoryState ==
    [info |-> OLLAMA_MODEL_INFO, size |-> OLLAMA_MODEL_SIZE_BYTES,
     modified |-> OLLAMA_MODEL_MODIFIED_TIMESTAMP,
     total |-> OLLAMA_MODELS_TOTAL, last |-> lastModels]
TagsApply(i, o, api, upd) ==
    /\ OLLAMA_EXPORTER_SCRAPE_DURATION' =
           IF api.threw THEN OLLAMA_EXPORTER_SCRAPE_DURATION
           ELSE Observe(OLLAMA_EXPORTER_SCRAPE_DURATION, "list_models")
    /\ OLLAMA_MODEL_INFO' = upd.m.info
    /\ OLLAMA_MODEL_SIZE_BYTES' = upd.m.size
    /\ OLLAMA_MODEL_MODIFIED_TIMESTAMP' = upd.m.modified
    /\ OLLAMA_MODELS_TOTAL' = upd.m.total
    /\ lastModels' = upd.m.last
    /\ Suspend(i, "tags", [cycles[i] EXCEPT !.inventory = StepEnded(api.threw, upd.ok)],
               o, api, api.threw)
TagsResume(i, o, api) ==
    TagsApply(i, o, api,
              IF api.threw THEN [ok |-> FALSE, m |-> InventoryState]
              ELSE UpdateModelMetrics(InventoryState, api.data))
\* the await of updateModelMetrics ends for cycle i, and updateModelMetrics
\* runs to its return
TagsReply(i, u) ==
    /\ cycles[i].endpoint = "tags"
    /\ cycles[i].await # "resume"
    /\ \E o \in Replies(cycles[i], u) : TagsResume(i, o, ApiRequest(o[1], o[2]))
    /\ UNCHANGED <<OLLAMA_UP, OLLAMA_VERSION_INFO, runningState, scheduler, now, started>>

\* the await of updateRunningMetrics ends for cycle i, and
\* updateRunningMetrics runs to its return
PsReply(i, u) ==
    /\ cycles[i].endpoint = "ps"
    /\ cycles[i].await # "resume"
    /\ \E o \in Replies(cycles[i], u) :
        LET api == ApiRequest(o[1], o[2])
            r == [running |-> OLLAMA_RUNNING_MODELS, memory |-> OLLAMA_MODEL_MEMORY_BYTES,
                  last |-> lastRunningModels]
            upd == IF api.threw THEN [ok |-> FALSE, r |-> r]
                   ELSE UpdateRunningMetrics(r, api.data)
        IN /\ OLLAMA_EXPORTER_SCRAPE_DURATION' =
                  IF api.threw THEN OLLAMA_EXPORTER_SCRAPE_DURATION
                  ELSE Observe(OLLAMA_EXPORTER_SCRAPE_DURATION, "list_running")
           /\ OLLAMA_RUNNING_MODELS' = upd.r.running
           /\ OLLAMA_MODEL_MEMORY_BYTES' = upd.r.memory
           /\ lastRunningModels' = upd.r.last
           /\ Suspend(i, "ps", [cycles[i] EXCEPT !.running = StepEnded(api.threw, upd.ok)],
                      o, api, api.threw)
    /\ UNCHANGED <<OLLAMA_UP, OLLAMA_VERSION_INFO, inventory, scheduler, now, started>>

\* how the call that cycle c awaited settled
Awaited(c) ==
    IF c.endpoint = "version" THEN c.health
    ELSE IF c.endpoint = "tags" THEN c.inventory
    ELSE c.running

\* a failed inventory update ends the cycle
TagsCycleReturns(c, ok) ==
    [c EXCEPT !.success = AfterModelMetrics(c.success, ok),
              !.todo = IF ok THEN c.todo ELSE <<>>]

\* cycle c after  if (!(await this.updateModelMetrics())) success = false
TagsCycle(c, ok) == [c EXCEPT !.success = AfterModelMetrics(c.success, ok)]

\* cycle c after updateMetrics took the result of the call it awaited: the
\* branches on ollamaUp, and the two updates of success
Resumed(c, ok) ==
    IF c.endpoint = "version"
    THEN [c EXCEPT !.success = AfterHealth(c.success, ok), !.todo = StepsAfterHealth(ok)]
    ELSE IF c.endpoint = "tags" THEN TagsCycle(c, ok)
    ELSE [c EXCEPT !.success = AfterRunningMetrics(c.success, ok)]

\* after a job of cycle i that left it as c: the cycle ends, or issues its
\* next request
Proceed(i, step, c, threw) ==
    IF threw \/ c.todo = <<>>
    THEN /\ Finish(i, threw, c.success)
         /\ ev' = Resumption(step, c, TRUE, threw)
    ELSE /\ cycles' = [Dequeued(cycles) EXCEPT ![i] = IssueRequest(c)]
         /\ ev' = Resumption(step, IssueRequest(c), FALSE, FALSE)
         /\ UNCHANGED <<OLLAMA_EXPORTER_SCRAPES_TOTAL,
                        OLLAMA_EXPORTER_LAST_SCRAPE_TIMESTAMP, rejected>>

\* updateMetrics resumes for cycle i, whose job is the first of the queue:
\* after checkOllamaHealth it sets OLLAMA_UP; an exception goes to its catch
UpdateMetricsResumes(i) ==
    /\ cycles[i].await = "resume"
    /\ cycles[i].job = 1
    /\ OLLAMA_UP' = IF cycles[i].endpoint = "version" /\ Awaited(cycles[i]) # "threw"
                    THEN UpValue(Awaited(cycles[i]) = "ok")
                    ELSE OLLAMA_UP
    /\ Proceed(i, cycles[i].endpoint,
               IF Awaited(cycles[i]) = "threw" THEN cycles[i]
               ELSE Resumed(cycles[i], Awaited(cycles[i]) = "ok"),
               Awaited(cycles[i]) = "threw")
    /\ UNCHANGED <<OLLAMA_VERSION_INFO, inventory, runningState,
                   OLLAMA_EXPORTER_SCRAPE_DURATION, scheduler, now, started>>

(***************************************************************************)
(* The callers of updateMetrics, startMetricsLoop and shutdown             *)
(***************************************************************************)
\* updateMetrics() is called directly (the initial scrape of main)
CallUpdateMetrics ==
    /\ CanStart
    /\ BeginUpdateMetrics
    /\ ev' = Quiet("call")
    /\ UNCHANGED <<registry, snapshots, scheduler, rejected>>

\* startMetricsLoop(interval): a new interval timer, kept in metricsInterval.
\* Timers are numbered in the order of their creation.  The timer has its
\* whole period before it.
StartMetricsLoop ==
    /\ metricsInterval < MaxTimers
    /\ metricsInterval' = metricsInterval + 1
    /\ timers' = timers \cup {metricsInterval + 1}
    /\ elapsed' = elapsed \ {metricsInterval + 1}
    /\ ev' = Quiet("start")
    /\ UNCHANGED <<registry, snapshots, shutdownEvent, emitted, cycles, now, started,
                   rejected>>

\* Time passes: interval milliseconds have gone by since timer t was armed
\* or fired last, and the event loop finds the timer due.
PeriodElapses(t) ==
    /\ t \in timers \ elapsed
    /\ NextCallback
    /\ elapsed' = elapsed \cup {t}
    /\ ev' = Quiet("period")
    /\ UNCHANGED <<registry, snapshots, shutdownEvent, metricsInterval, timers, emitted,
                   cycles, now, started, rejected>>

\* metricsLoop without the test of the flag
LoopRunsAlways(flag) == TRUE

\* if (!this.shutdownEvent)
LoopRuns(flag) == ~flag

\* metricsLoop, the callback of interval timer t, which is due, in a run of
\* at most cap calls of updateMetrics; the timer has its next period before
\* it
MetricsLoopWithin(t, cap) ==
    /\ t \in timers \cap elapsed
    /\ NextCallback
    /\ IF LoopRuns(shutdownEvent)
       THEN /\ started < cap
            /\ BeginUpdateMetrics
       ELSE UNCHANGED <<cycles, started, now>>
    /\ elapsed' = elapsed \ {t}
    /\ ev' = Quiet("tick")
    /\ UNCHANGED <<registry, snapshots, shutdownEvent, metricsInterval, timers, emitted,
                   rejected>>
MetricsLoop(t) == MetricsLoopWithin(t, MaxCycles)

\* shutdown()
Shutdown ==
    /\ emitted < MaxShutdowns
    /\ shutdownEvent' = TRUE
    /\ timers' = IF metricsInterval # NoTimer THEN timers \ {metricsInterval} ELSE timers
    /\ elapsed' = IF metricsInterval # NoTimer THEN elapsed \ {metricsInterval} ELSE elapsed
    /\ emitted' = emitted + 1
    /\ ev' = Quiet("shutdown")
    /\ UNCHANGED <<registry, snapshots, metricsInterval, cycles, now, started, rejected>>

(***************************************************************************)
(* The history of the cycles, for comparing one cycle with the next        *)
(*                                                                         *)
(*   hist.cur     the bodies the cycle in flight has read, per endpoint    *)
(*   hist.ended   for each cycle that has ended, in order: the bodies it   *)
(*                read and the registry and snapshots it left              *)
(***************************************************************************)
\* the registry without the duration histogram and the last-scrape
\* timestamp, and the two snapshots
Content ==
    [up |-> OLLAMA_UP, version |-> OLLAMA_VERSION_INFO, total |-> OLLAMA_MODELS_TOTAL,
     info |-> OLLAMA_MODEL_INFO, size |-> OLLAMA_MODEL_SIZE_BYTES,
     modified |-> OLLAMA_MODEL_MODIFIED_TIMESTAMP, running |-> OLLAMA_RUNNING_MODELS,
     memory |-> OLLAMA_MODEL_MEMORY_BYTES, scrapes |-> OLLAMA_EXPORTER_SCRAPES_TOTAL,
     lastModels |-> lastModels, lastRunningModels |-> lastRunningModels]

\* the history after the job that left event e and content: the first job
\* of a reply records the body that was read, the job that ends the cycle
\* closes its record
Ended(h, cur, content) ==
    [cur |-> NoBodies, ended |-> Append(h.ended, [bodies |-> cur, after |-> content])]
Recorded(h, e, content) ==
    IF e.op = "resume"
    THEN IF e.done THEN Ended(h, h.cur, content) ELSE h
    ELSE [h EXCEPT !.cur[e.op] = e.data]

\* updateMetrics is called when no cycle is in flight
TwiceCall ==
    /\ cycles = <<>>
    /\ CallUpdateMetrics
    /\ UNCHANGED outside

TwiceHeaders ==
    /\ cycles # <<>>
    /\ ResponseHeaders(1)
    /\ UNCHANGED outside

\* the two jobs of the replies to the only cycle, recorded in the history
TwiceReply ==
    /\ cycles # <<>>
    /\ \/ VersionReply(1, TwiceUpstream)
       \/ TagsReply(1, TwiceUpstream)
       \/ PsReply(1, TwiceUpstream)
    /\ hist' = Recorded(hist, ev', Content')
    /\ UNCHANGED <<program, client>>
TwiceResume ==
    /\ cycles # <<>>
    /\ UpdateMetricsResumes(1)
    /\ hist' = Recorded(hist, ev', Content')
    /\ UNCHANGED <<program, client>>

\* updateMetrics is called when no cycle is in flight, in a run of one
\* cycle more than MaxCycles: a first one, and those that follow it
HealCall ==
    /\ cycles = <<>>
    /\ started < MaxCycles + 1
    /\ BeginUpdateMetrics
    /\ ev' = Quiet("call")
    /\ UNCHANGED <<registry, snapshots, scheduler, rejected, outside>>

\* the replies to the only cycle, recorded in the history
HealReply ==
    /\ cycles # <<>>
    /\ \/ VersionReply(1, HealUpstream)
       \/ TagsReply(1, HealUpstream)
       \/ PsReply(1, HealUpstream)
    /\ hist' = Recorded(hist, ev', Content')
    /\ UNCHANGED <<program, client>>

(***************************************************************************)
(* FetchHttpClient.request                                                 *)
(*                                                                         *)
(*   stage          "idle", "pending" (awaiting fetch), "returned"         *)
(*   timeout        options.timeout, 0 when it is not given                *)
(*   signal         options.signal is given                                *)
(*   timer          the timeout timer: "none", "armed", "fired", "cleared" *)
(*   aborted        controller.abort() was called                          *)
(*   callerAborted  the signal of the caller was aborted                   *)
(*   rejected, isnull, ok, status, statusText   what request produced      *)
(*   fetched        what fetch produced                                    *)
(*   method, body   the fetchOptions passed to fetch                       *)
(***************************************************************************)
Timeouts == {0, 100}
Responses ==
    {Fetched("resolves", TRUE, 200, "OK"),
     Fetched("resolves", TRUE, 201, "Created"),
     Fetched("resolves", FALSE, 404, "Not Found"),
     Fetched("resolves", FALSE, 500, "Internal Server Error")}
NetworkError == Fetched("network", FALSE, 0, "")
AbortError == Fetched("abort", FALSE, 0, "")

\* options.timeout ? setTimeout(() => controller.abort(), options.timeout) : undefined
ArmTimeout(timeout) == IF timeout # 0 THEN "armed" ELSE "none"

\* method: options.method || 'GET'
FetchMethod(method) == OrS(method, "GET")
\* if (options.body) fetchOptions.body = options.body
FetchBody(body) == IF FalsyS(body) THEN Undef ELSE body

\* request(url, options) up to  await this.fetch(url, fetchOptions)
ClientRequest(timeout, signal, method, body) ==
    /\ client.stage # "pending"
    /\ client.calls < MaxCalls
    /\ client' = [NoCall EXCEPT !.stage = "pending", !.timeout = timeout,
                                !.signal = signal, !.timer = ArmTimeout(timeout),
                                !.calls = client.calls + 1,
                                !.method = FetchMethod(method), !.body = FetchBody(body)]
    /\ ev' = Quiet("request")
    /\ UNCHANGED <<registry, snapshots, scheduler, cycles, now, started, rejected,
                   program, hist>>

\* the timeout timer fires: controller.abort()
TimeoutFires ==
    /\ client.timer = "armed"
    /\ NextCallback
    /\ client' = [client EXCEPT !.timer = "fired", !.aborted = TRUE]
    /\ ev' = Quiet("timeout")
    /\ UNCHANGED <<registry, snapshots, scheduler, cycles, now, started, rejected,
                   program, hist>>

\* the caller aborts the signal it passed
CallerAborts ==
    /\ client.stage = "pending"
    /\ client.signal
    /\ ~client.callerAborted
    /\ client' = [client EXCEPT !.callerAborted = TRUE]
    /\ ev' = Quiet("abort")
    /\ UNCHANGED <<registry, snapshots, scheduler, cycles, now, started, rejected,
                   program, hist>>

\* signal: options.signal || controller.signal, and whether it is aborted
SignalAborted(c) == IF c.signal THEN c.callerAborted ELSE c.aborted

\* what fetch can do: once its signal is aborted it rejects
FetchOutcomes(c) ==
    IF SignalAborted(c) THEN {AbortError} ELSE Responses \cup {NetworkError}

\* the try block: the response fields are copied, or the rejection of fetch
\* is thrown by the await
RequestTry(fetched) ==
    IF fetched.kind = "resolves"
    THEN [threw |-> FALSE, isnull |-> FALSE, ok |-> fetched.ok,
          status |-> fetched.status, statusText |-> fetched.statusText]
    ELSE [threw |-> TRUE, isnull |-> FALSE, ok |-> FALSE, status |-> 0, statusText |-> ""]

\* request without its catch
RequestNoCatch(r) == r

\* catch { return null }
RequestCatch(r) == IF r.threw THEN [r EXCEPT !.threw = FALSE, !.isnull = TRUE] ELSE r

\* finally { if (timeout) clearTimeout(timeout) }: a timer that has fired
\* is not affected
RequestFinally(timer) == IF timer = "armed" THEN "cleared" ELSE timer

ClientReturns(fetched, r) ==
    client' = [client EXCEPT !.stage = "returned", !.fetched = fetched,
                             !.rejected = r.threw, !.isnull = r.isnull, !.ok = r.ok,
                             !.status = r.status, !.statusText = r.statusText,
                             !.timer = RequestFinally(client.timer)]
\* the await of fetch ends and request returns
FetchSettles ==
    /\ client.stage = "pending"
    /\ \E fetched \in FetchOutcomes(client) :
           ClientReturns(fetched, RequestCatch(RequestTry(fetched)))
    /\ ev' = Quiet("fetch")
    /\ UNCHANGED <<registry, snapshots, scheduler, cycles, now, started, rejected,
                   program, hist>>

(***************************************************************************)
(* The engine on top of FetchHttpClient: one cycle at a time, client is    *)
(* the call of httpClient.request the cycle awaits.  The upstream server   *)
(* answers when it likes, or never: only the timeout timer, what the code  *)
(* does once it has fired, and the promise jobs are bound to happen.       *)
(***************************************************************************)
\* httpClient.request(url, {method, headers, body, timeout: this.apiTimeout})
\* as apiRequest calls it: GET, no body, no signal, a positive timeout
EngineRequest(calls) ==
    [NoCall EXCEPT !.stage = "pending", !.timeout = 100, !.timer = ArmTimeout(100),
                   !.calls = calls + 1, !.method = FetchMethod("GET"),
                   !.body = FetchBody(Undef)]

\* the call the cycle awaits after a step: none when the cycle has ended
NextRequest(cs, calls) ==
    IF cs = <<>> THEN [NoCall EXCEPT !.calls = calls] ELSE EngineRequest(calls)

\* the call the only cycle awaits settles: the client has no call until
\* updateMetrics resumes
EngineReply(u) ==
    /\ VersionReply(1, u) \/ TagsReply(1, u) \/ PsReply(1, u)
    /\ client' = NextRequest(<<>>, client.calls)

\* updateMetrics resumes, and issues its next request if it has one
EngineResume ==
    /\ cycles # <<>>
    /\ UpdateMetricsResumes(1)
    /\ client' = NextRequest(cycles', client.calls)
    /\ UNCHANGED <<program, hist>>

\* updateMetrics is called when no cycle is in flight
EngineCall ==
    /\ cycles = <<>>
    /\ CallUpdateMetrics
    /\ client' = EngineRequest(client.calls)
    /\ UNCHANGED <<program, hist>>

\* the timer fired: fetch rejects with an AbortError, request returns null
EngineAborted ==
    /\ cycles # <<>>
    /\ client.stage = "pending"
    /\ SignalAborted(client)
    /\ EngineReply(LoopUpstream)
    /\ ev'.failure = "null"
    /\ UNCHANGED <<program, hist>>

\* the upstream fails before the timer fires: a network error, or a
\* response that is not ok
EngineFails ==
    /\ cycles # <<>>
    /\ client.stage = "pending"
    /\ ~SignalAborted(client)
    /\ EngineReply(LoopUpstream)
    /\ ev'.failure \in {"null", "status"}
    /\ UNCHANGED <<program, hist>>

\* the headers of a 200 response arrive before the timer fires: fetch
\* resolves, request returns through its finally, apiRequest awaits json()
EngineHeaders ==
    /\ cycles # <<>>
    /\ client.stage = "pending"
    /\ ~SignalAborted(client)
    /\ ResponseHeaders(1)
    /\ ClientReturns(Fetched("resolves", TRUE, 200, "OK"),
                     RequestCatch(RequestTry(Fetched("resolves", TRUE, 200, "OK"))))
    /\ UNCHANGED <<program, hist>>

\* the body arrives: json() resolves or rejects
EngineBody ==
    /\ cycles # <<>>
    /\ client.stage = "returned"
    /\ EngineReply(LoopUpstream)
    /\ UNCHANGED <<program, hist>>

(***************************************************************************)
(* main of index.ts                                                        *)
(*                                                                         *)
(*   main       "init", "validate" (awaiting checkOllamaHealth),           *)
(*              "startup" (awaiting the initial updateMetrics), "running"  *)
(*              (awaiting 'shutdown'), "exited"                            *)
(*   probe      the checkOllamaHealth call of the validate-only mode: what *)
(*              it awaits and the requests it has issued                   *)
(*   listening, serverError                                                *)
(*              server.listen(port) returns at once.  On a free port the   *)
(*              server listens; on a port in use it emits 'error', not in  *)
(*              the call but once the code that runs and the promise jobs  *)
(*              it has queued are through, and before the event loop takes *)
(*              a callback of a timer, a signal or the network.            *)
(***************************************************************************)
Alive == main # "exited"

\* if (config.validateConfig): checkOllamaHealth() is called and awaited
MainValidate ==
    /\ main = "init"
    /\ main' = "validate"
    /\ probe' = [await |-> "request", endpoint |-> "version", requests |-> <<"version">>]
    /\ ev' = Quiet("validate")
    /\ UNCHANGED <<registry, snapshots, scheduler, cycles, now, started, rejected,
                   exitCode, listening, serverError, client, hist>>

\* the response headers of the probe arrive with a 2xx status
ProbeHeaders ==
    /\ main = "validate"
    /\ probe.await = "request"
    /\ probe' = [probe EXCEPT !.await = "json"]
    /\ ev' = Quiet("headers")
    /\ UNCHANGED <<registry, snapshots, scheduler, cycles, now, started, rejected,
                   main, exitCode, listening, serverError, client, hist>>

\* no process.exit(1) on a failed probe
ValidateExitZero(threw, up) == 0

\* The exit code of the validate-only mode: process.exit(1) when the probe
\* returned false, and from main().catch when it threw; otherwise main
\* returns and the process ends with code 0.
ValidateExit(threw, up) == IF threw \/ ~up THEN 1 ELSE 0

ProbeEnd(o, api, h) ==
    /\ OLLAMA_VERSION_INFO' = IF api.threw THEN OLLAMA_VERSION_INFO ELSE h.versionInfo
    /\ exitCode' = ValidateExit(api.threw \/ h.threw, h.up)
    /\ ev' = [op |-> "probe", done |-> FALSE, failure |-> FailureKind(o),
              data |-> api.data, threw |-> api.threw \/ h.threw]
ProbeResume(o, api) == ProbeEnd(o, api, CheckOllamaHealth(OLLAMA_VERSION_INFO, api.data))
\* the await of checkOllamaHealth ends in the validate-only mode
ProbeReply(u) ==
    /\ main = "validate"
    /\ \E o \in Outcomes(probe, u) : ProbeResume(o, ApiRequest(o[1], o[2]))
    /\ main' = "exited"
    /\ probe' = [probe EXCEPT !.await = "done"]
    /\ UNCHANGED <<OLLAMA_UP, inventory, runningState, OLLAMA_EXPORTER_SCRAPE_DURATION,
                   OLLAMA_EXPORTER_SCRAPES_TOTAL, OLLAMA_EXPORTER_LAST_SCRAPE_TIMESTAMP,
                   scheduler, cycles, now, started, rejected, listening, serverError,
                   client, hist>>

\* The normal mode: server.listen(...), then the initial scrape is called,
\* and main awaits it.  On a port in use the server does not listen and its
\* 'error' waits to be emitted; main goes on as on a free port.
MainStart(inUse) ==
    /\ main = "init"
    /\ CallUpdateMetrics
    /\ main' = "startup"
    /\ listening' = ~inUse
    /\ serverError' = inUse
    /\ UNCHANGED <<exitCode, probe, client, hist>>

\* startMetricsLoop is called without awaiting the initial scrape
StartupNotAwaited(cs) == TRUE

\* await exporter.updateMetrics(): main goes on when the initial scrape,
\* the only cycle there is, has ended
StartupAwaited(cs) == cs = <<>>

\* exporter.startMetricsLoop(config.interval)
MainStartLoop ==
    /\ main = "startup"
    /\ StartupAwaited(cycles)
    /\ StartMetricsLoop
    /\ main' = "running"
    /\ UNCHANGED <<exitCode, listening, serverError, probe, client, hist>>

\* The 'error' of the server is emitted, and nobody listens to it: the
\* process ends with code 1.  It is emitted when the promise jobs that were
\* queued have run, main among them if the initial scrape has ended, and
\* before any callback of a timer, of a signal or of the network.
ListenError ==
    /\ Alive
    /\ serverError
    /\ NoJobPending
    /\ ~(main = "startup" /\ StartupAwaited(cycles))
    /\ serverError' = FALSE
    /\ main' = "exited"
    /\ exitCode' = 1
    /\ ev' = Quiet("error")
    /\ UNCHANGED <<registry, snapshots, scheduler, cycles, now, started, rejected,
                   listening, probe, client, hist>>

\* time passes while the process runs
MainPeriodElapses(t) ==
    /\ Alive
    /\ PeriodElapses(t)
    /\ UNCHANGED outside

\* the interval timer fires: the initial scrape and at most MaxCycles
\* periodic ones
MainTick(t) ==
    /\ Alive
    /\ MetricsLoopWithin(t, MaxCycles + 1)
    /\ UNCHANGED outside

\* SIGINT or SIGTERM: exporter.shutdown(); process.exit(0)
Signal ==
    /\ main \in {"startup", "running"}
    /\ NextCallback
    /\ Shutdown
    /\ exitCode' = 0
    /\ main' = "exited"
    /\ UNCHANGED <<listening, serverError, probe, client, hist>>

(***************************************************************************)
(* The HTTP server of index.ts                                             *)
(*                                                                         *)
(* A request target is req.url: undefined, or a string, given as the       *)
(* sequence of its characters ("/health" is <<"/", "h", "e", "a", "l",     *)
(* "t", "h">>).  The characters are those of ASCII that a string of this   *)
(* module can hold: the printable ones, tab, line feed, form feed and      *)
(* carriage return; "grave" stands for the grave accent.                   *)
(*                                                                         *)
(* The HTTP parser of the runtime calls the handler for a target that      *)
(* starts with a slash, for "*", and for one that starts with a scheme and *)
(* "://"; a request with another target (http:health) is answered 400      *)
(* without the handler.  Targets holds targets of the three forms only.    *)
(***************************************************************************)
Target(url) == [defined |-> TRUE, url |-> url]
NoTarget == [defined |-> FALSE, url |-> <<>>]
Health == <<"h", "e", "a", "l", "t", "h">>
Metrics == <<"m", "e", "t", "r", "i", "c", "s">>
Targets ==
    {NoTarget,
     Target(<<"/">> \o Health),
     Target(<<"/">> \o Health \o <<"?", "v", "=", "1">>),
     Target(<<"/">> \o Metrics),
     Target(<<"/">> \o Metrics \o <<"/">>),
     Target(<<"/", "o">>),
     Target(<<"/", "/">>),
     Target(<<"/", "\\">>),
     Target(<<"/", "/", "/">> \o Metrics),
     Target(<<"/", "\\", "x", "/">> \o Health),
     Target(<<"/", "/", "u", "@", "x", ":", "8", "0", "/">> \o Metrics),
     Target(<<"/", "/", "x", ":", "6", "5", "5", "3", "6", "/">> \o Metrics),
     Target(<<"/", "/", "@", "/">> \o Health),
     Target(<<"/", "/", ":", "8", "0", "/">> \o Health),
     Target(<<"/", "/", "1", ".", "2", ".", "3", ".", "2", "5", "6", "/">> \o Health),
     Target(<<"/", "/", "a", "<", "b", "/">> \o Health),
     Target(<<"/", "/", "[", ":", ":", "1", "]", "/">> \o Health),
     Target(<<"/", ".", "/">> \o Health),
     Target(<<"/", "x", "/", ".", ".", "/">> \o Metrics),
     Target(<<"/", "x", "/", ".", "y", "/", ".", ".", "/", ".", ".", "/">> \o Health),
     Target(<<"*">>),
     Target(<<"h", "t", "t", "p", ":", "/", "/", "h", "/">> \o Health),
     Target(<<"f", "o", "o", ":", "/", "/", "h", "/">> \o Metrics)}

\* req.url || '/'
TargetOrRoot(target) == IF target.defined /\ target.url # <<>> THEN target.url ELSE <<"/">>

(***************************************************************************)
(* new URL(input, `http://localhost:${config.port}`): the URL parser of    *)
(* the runtime, state by state, as far as it decides whether the           *)
(* constructor throws and what url.pathname is.  The base has the scheme   *)
(* http, a host, and the path "/".                                         *)
(***************************************************************************)
EOF == ""
Printable ==
    <<" ", "!", "\"", "#", "$", "%", "&", "'", "(", ")", "*", "+", ",", "-", ".", "/",
      "0", "1", "2", "3", "4", "5", "6", "7", "8", "9", ":", ";", "<", "=", ">", "?",
      "@", "A", "B", "C", "D", "E", "F", "G", "H", "I", "J", "K", "L", "M", "N", "O",
      "P", "Q", "R", "S", "T", "U", "V", "W", "X", "Y", "Z", "[", "\\", "]", "^", "_",
      "grave", "a", "b", "c", "d", "e", "f", "g", "h", "i", "j", "k", "l", "m", "n", "o",
      "p", "q", "r", "s", "t", "u", "v", "w", "x", "y", "z", "{", "|", "}", "~">>
IndexOf(seq, c) == CHOOSE i \in 1..Len(seq) : seq[i] = c
Among(seq, a, b) == {seq[i] : i \in a..b}
Digits == Among(Printable, 17, 26)
Upper == Among(Printable, 34, 59)
Alpha == Upper \cup Among(Printable, 66, 91)
HexDigits == Digits \cup Among(Printable, 34, 39) \cup Among(Printable, 66, 71)
\* the code of a character: 32 to 126 for the printable ones
Code(c) ==
    IF c = "\t" THEN 9 ELSE IF c = "\n" THEN 10 ELSE IF c = "\f" THEN 12
    ELSE IF c = "\r" THEN 13 ELSE 31 + IndexOf(Printable, c)
Lower(c) == IF c \in Upper THEN Printable[IndexOf(Printable, c) + 32] ELSE c
Lowered(s) == [i \in 1..Len(s) |-> Lower(s[i])]
\* the value of a digit in the radixes up to 16
DigitValue(c) == IF c \in Digits THEN Code(c) - 48 ELSE Code(Lower(c)) - 87
HexDigit(n) == IF n < 10 THEN Printable[17 + n] ELSE Printable[24 + n]

At(s, p) == IF p \in 1..Len(s) THEN s[p] ELSE EOF
Sub(s, a, b) == IF a > b THEN <<>> ELSE SubSeq(s, a, b)
From(s, a) == Sub(s, a, Len(s))
Has(s, set) == \E i \in 1..Len(s) : s[i] \in set
All(s, set) == \A i \in 1..Len(s) : s[i] \in set
\* the first position from p on that holds a character of stop, Len(s) + 1
\* when there is none
RECURSIVE Find(_, _, _)
Find(s, p, stop) == IF p > Len(s) \/ s[p] \in stop THEN p ELSE Find(s, p + 1, stop)
\* the first position from p on that holds no character of set
RECURSIVE Span(_, _, _)
Span(s, p, set) == IF p > Len(s) \/ s[p] \notin set THEN p ELSE Span(s, p + 1, set)
\* the last position up to p that holds c, 0 when there is none
RECURSIVE FindLast(_, _, _)
FindLast(s, p, c) == IF p = 0 \/ s[p] = c THEN p ELSE FindLast(s, p - 1, c)
\* s split at each c
RECURSIVE Split(_, _)
Split(s, c) ==
    IF Find(s, 1, {c}) > Len(s) THEN <<s>>
    ELSE <<Sub(s, 1, Find(s, 1, {c}) - 1)>> \o Split(From(s, Find(s, 1, {c}) + 1), c)

\* Leading and trailing C0 controls and spaces are removed, then every tab
\* and newline.
C0OrSpace == {" ", "\t", "\n", "\f", "\r"}
RECURSIVE TrimLeft(_)
TrimLeft(s) == IF s # <<>> /\ Head(s) \in C0OrSpace THEN TrimLeft(Tail(s)) ELSE s
RECURSIVE TrimRight(_)
TrimRight(s) ==
    IF s # <<>> /\ s[Len(s)] \in C0OrSpace THEN TrimRight(Sub(s, 1, Len(s) - 1)) ELSE s
Stripped(s) == SelectSeq(TrimRight(TrimLeft(s)), LAMBDA c : c \notin {"\t", "\n", "\r"})

\* The schemes: "http" (that of the base), "file", "special" (https, ws,
\* wss, ftp) and "other".
SchemeOf(buffer) ==
    IF buffer = <<"h", "t", "t", "p">> THEN "http"
    ELSE IF buffer = <<"f", "i", "l", "e">> THEN "file"
    ELSE IF buffer \in {<<"h", "t", "t", "p", "s">>, <<"w", "s">>, <<"w", "s", "s">>,
                        <<"f", "t", "p">>} THEN "special"
    ELSE "other"
IsSpecial(scheme) == scheme # "other"
\* in a special URL a backslash is a slash
IsSlash(c, scheme) == c = "/" \/ (IsSpecial(scheme) /\ c = "\\")
\* what ends the authority, the host, the port and a path segment
Terminators(scheme) == IF IsSpecial(scheme) THEN {"/", "\\", "?", "#"} ELSE {"/", "?", "#"}

\* ---- the host parser ----
\* An IPv4 number: [hi, lo] for hi * 65536 + lo, hi capped at 65536, or
\* NotANumber.  R is the radix.
NotANumber == [hi |-> 0 - 1, lo |-> 0]
Shift(n, R, d) ==
    [hi |-> IF n.hi * R + (n.lo * R + d) \div 65536 > 65536 THEN 65536
            ELSE n.hi * R + (n.lo * R + d) \div 65536,
     lo |-> (n.lo * R + d) % 65536]
RECURSIVE Number(_, _, _)
Number(digits, R, n) ==
    IF digits = <<>> THEN n
    ELSE IF Head(digits) \notin HexDigits \/ DigitValue(Head(digits)) >= R THEN NotANumber
    ELSE Number(Tail(digits), R, Shift(n, R, DigitValue(Head(digits))))
Ipv4Number(part) ==
    IF part = <<>> THEN NotANumber
    ELSE IF Len(part) >= 2 /\ part[1] = "0" /\ Lower(part[2]) = "x"
    THEN Number(From(part, 3), 16, [hi |-> 0, lo |-> 0])
    ELSE IF Len(part) >= 2 /\ part[1] = "0"
    THEN Number(From(part, 2), 8, [hi |-> 0, lo |-> 0])
    ELSE Number(part, 10, [hi |-> 0, lo |-> 0])
\* n < 256^k, for k from 1 to 4
Below(n, k) ==
    IF k = 1 THEN n.hi = 0 /\ n.lo < 256
    ELSE IF k = 2 THEN n.hi = 0
    ELSE IF k = 3 THEN n.hi < 256
    ELSE n.hi < 65536
\* the parts of a host between its dots, without one empty part at the end
Parts(host) ==
    IF Len(Split(host, ".")) > 1 /\ Split(host, ".")[Len(Split(host, "."))] = <<>>
    THEN Sub(Split(host, "."), 1, Len(Split(host, ".")) - 1)
    ELSE Split(host, ".")
Last(seq) == seq[Len(seq)]
EndsInANumber(host) ==
    \/ (Last(Parts(host)) # <<>> /\ All(Last(Parts(host)), Digits))
    \/ Ipv4Number(Last(Parts(host))) # NotANumber
Ipv4Parser(host) ==
    /\ Len(Parts(host)) <= 4
    /\ \A i \in 1..Len(Parts(host)) : Ipv4Number(Parts(host)[i]) # NotANumber
    /\ \A i \in 1..(Len(Parts(host)) - 1) : Below(Ipv4Number(Parts(host)[i]), 1)
    /\ Below(Ipv4Number(Last(Parts(host))), 5 - Len(Parts(host)))

\* The four decimal numbers that may end an IPv6 address, from p on, seen
\* of them read: each at most 255 and without a leading zero.
DecimalEnd(s, p) == Span(s, p, Digits)
DecimalByte(digits) ==
    /\ digits # <<>>
    /\ Len(digits) <= 3
    /\ Len(digits) > 1 => digits[1] # "0"
    /\ Number(digits, 10, [hi |-> 0, lo |-> 0]).lo <= 255
RECURSIVE Ipv4InIpv6(_, _, _)
Ipv4InIpv6(s, p, seen) ==
    IF p > Len(s) THEN seen = 4
    ELSE IF seen > 0 /\ ~(s[p] = "." /\ seen < 4) THEN FALSE
    ELSE IF ~DecimalByte(Sub(s, IF seen > 0 THEN p + 1 ELSE p,
                             DecimalEnd(s, IF seen > 0 THEN p + 1 ELSE p) - 1)) THEN FALSE
    ELSE Ipv4InIpv6(s, DecimalEnd(s, IF seen > 0 THEN p + 1 ELSE p), seen + 1)
\* The pieces of an IPv6 address from p on: pieceIndex of them are read, and
\* compress tells whether "::" was.  q ends the hexadecimal digits, at most
\* four, that start at p.
HexEnd(s, p) == IF Span(s, p, HexDigits) > p + 4 THEN p + 4 ELSE Span(s, p, HexDigits)
RECURSIVE Ipv6Pieces(_, _, _, _)
Ipv6Pieces(s, p, pieceIndex, compress) ==
    IF p > Len(s) THEN compress \/ pieceIndex = 8
    ELSE IF pieceIndex = 8 THEN FALSE
    ELSE IF s[p] = ":" THEN ~compress /\ Ipv6Pieces(s, p + 1, pieceIndex + 1, TRUE)
    ELSE IF At(s, HexEnd(s, p)) = "."
    THEN HexEnd(s, p) > p /\ pieceIndex <= 6 /\ Ipv4InIpv6(s, p, 0)
         /\ (compress \/ pieceIndex + 2 = 8)
    ELSE IF At(s, HexEnd(s, p)) = ":"
    THEN HexEnd(s, p) + 1 <= Len(s)
         /\ Ipv6Pieces(s, HexEnd(s, p) + 1, pieceIndex + 1, compress)
    ELSE HexEnd(s, p) > Len(s) /\ (compress \/ pieceIndex + 1 = 8)
Ipv6Parser(s) ==
    IF At(s, 1) = ":" THEN At(s, 2) = ":" /\ Ipv6Pieces(s, 3, 1, TRUE)
    ELSE Ipv6Pieces(s, 1, 0, FALSE)

\* The bytes of a host, percent-decoded: a printable character stands for
\* itself, "ctl" for a control character and "high" for a byte above 127.
Byte(n) == IF n >= 128 THEN "high" ELSE IF n < 32 \/ n = 127 THEN "ctl" ELSE Printable[n - 31]
RECURSIVE PercentDecode(_)
PercentDecode(s) ==
    IF s = <<>> THEN <<>>
    ELSE IF s[1] = "%" /\ Len(s) >= 3 /\ s[2] \in HexDigits /\ s[3] \in HexDigits
    THEN <<Byte(16 * DigitValue(s[2]) + DigitValue(s[3]))>> \o PercentDecode(From(s, 4))
    ELSE <<s[1]>> \o PercentDecode(Tail(s))
ForbiddenHost ==
    {"\t", "\n", "\r", " ", "#", "/", ":", "<", ">", "?", "@", "[", "\\", "]", "^", "|"}
ForbiddenDomain == ForbiddenHost \cup {"%", "ctl", "\f"}
\* a label that starts with xn-- is decoded and validated with the tables
\* of IDNA, and so is a host with a byte above 127
NeedsIdna(domain) ==
    \/ Has(domain, {"high"})
    \/ \E i \in 1..Len(Split(domain, ".")) :
           /\ Len(Split(domain, ".")[i]) >= 4
           /\ Sub(Split(domain, ".")[i], 1, 4) = <<"x", "n", "-", "-">>
\* The verdict of the host parser on a host that is not empty: "ok", "fail",
\* or "either" where the tables of IDNA decide.
DomainParser(domain) ==
    IF Has(domain, ForbiddenDomain) THEN "fail"
    ELSE IF NeedsIdna(domain) THEN "either"
    ELSE IF EndsInANumber(domain) /\ ~Ipv4Parser(domain) THEN "fail"
    ELSE "ok"
HostParser(host, isOpaque) ==
    IF host[1] = "["
    THEN IF Last(host) = "]" /\ Ipv6Parser(Sub(host, 2, Len(host) - 1)) THEN "ok" ELSE "fail"
    ELSE IF isOpaque THEN (IF Has(host, ForbiddenHost) THEN "fail" ELSE "ok")
    ELSE DomainParser(Lowered(PercentDecode(host)))

\* ---- the path ----
\* The path is computed as the URL parser of the runtime computes it, which
\* is not in every case what the URL standard says.
\* The characters the runtime writes as % and their code in hexadecimal in
\* a path ("\f" stands for the control characters).
PathPercentEncodeSet == {" ", "\"", "#", "<", ">", "?", "grave", "{", "}", "\f"}
RECURSIVE PercentEncode(_, _)
PercentEncode(s, set) ==
    IF s = <<>> THEN <<>>
    ELSE (IF Head(s) \in set
          THEN <<"%", HexDigit(Code(Head(s)) \div 16), HexDigit(Code(Head(s)) % 16)>>
          ELSE <<Head(s)>>) \o PercentEncode(Tail(s), set)
SingleDot(buffer) == Lowered(buffer) \in {<<".">>, <<"%", "2", "e">>}
DoubleDot(buffer) ==
    Lowered(buffer) \in {<<".", ".">>, <<".", "%", "2", "e">>, <<"%", "2", "e", ".">>,
                         <<"%", "2", "e", "%", "2", "e">>}
\* a Windows drive letter: a letter and ":" or "|", at the end of the input
\* or before a slash, "?" or "#"
WindowsDriveLetter(input) ==
    /\ Len(input) >= 2
    /\ input[1] \in Alpha
    /\ input[2] \in {":", "|"}
    /\ At(input, 3) \in {EOF, "/", "\\", "?", "#"}
\* what the runtime takes for a normalized drive letter: a letter and ":"
\* at the start
NormalizedWindowsDriveLetter(input) ==
    Len(input) >= 2 /\ input[1] \in Alpha /\ input[2] = ":"
\* The path is the string url.pathname.  The path without its last segment;
\* in a file URL an only segment that starts with a drive letter stays.
ShortenPath(path, scheme) ==
    IF /\ scheme = "file"
       /\ path # <<>>
       /\ Find(path, 2, {"/"}) > Len(path)
       /\ NormalizedWindowsDriveLetter(From(path, 2))
    THEN path
    ELSE Sub(path, 1, FindLast(path, Len(path), "/") - 1)
\* The path after the segment buffer, which is the last one or not.  After
\* a last ".." the path of a URL that is not special ends in a slash only
\* if a segment was removed.
Pushed(path, buffer, last, scheme) ==
    IF DoubleDot(buffer)
    THEN ShortenPath(path, scheme)
             \o (IF last /\ (ShortenPath(path, scheme) # path \/ IsSpecial(scheme))
                 THEN <<"/">> ELSE <<>>)
    ELSE IF SingleDot(buffer) THEN path \o (IF last THEN <<"/">> ELSE <<>>)
    ELSE IF scheme = "file" /\ path = <<>> /\ WindowsDriveLetter(buffer)
    THEN <<"/", buffer[1], ":">> \o From(buffer, 3)
    ELSE path \o <<"/">> \o buffer
\* what separates the segments of a path
Separators(scheme) == IF IsSpecial(scheme) THEN {"/", "\\"} ELSE {"/"}
\* the path after the segments of view, each percent-encoded
RECURSIVE PreparedPath(_, _, _)
PreparedPath(view, path, scheme) ==
    IF Find(view, 1, Separators(scheme)) > Len(view)
    THEN Pushed(path, PercentEncode(view, PathPercentEncodeSet), TRUE, scheme)
    ELSE PreparedPath(From(view, Find(view, 1, Separators(scheme)) + 1),
                      Pushed(path,
                             PercentEncode(Sub(view, 1, Find(view, 1, Separators(scheme)) - 1),
                                           PathPercentEncodeSet),
                             FALSE, scheme),
                      scheme)
\* what the runtime notes of a view before it reads it: characters to
\* encode, backslashes, dots, percent signs
PathSignature(view) ==
    (IF Has(view, PathPercentEncodeSet) THEN {"encoding"} ELSE {})
        \cup (IF Has(view, {"\\"}) THEN {"backslash"} ELSE {})
        \cup (IF Has(view, {"."}) THEN {"dot"} ELSE {})
        \cup (IF Has(view, {"%"}) THEN {"percent"} ELSE {})
\* the first position from p on where "/." starts, Len(view) + 1 when there
\* is none
RECURSIVE SlashDot(_, _)
SlashDot(view, p) ==
    IF p > Len(view) \/ (view[p] = "/" /\ At(view, p + 1) = ".") THEN p
    ELSE SlashDot(view, p + 1)
\* The runtime appends a view unchanged when it finds nothing to do in it.
\* In a view that has dots and nothing else of note, and does not start
\* with one, it looks at the first "/." only: the view is left unchanged
\* unless a ".", a "/" or the end follows those two characters.
TrivialPath(view, scheme) ==
    IF scheme = "file" /\ WindowsDriveLetter(view) THEN FALSE
    ELSE IF PathSignature(view) = {"dot"} /\ view[1] # "."
    THEN \/ SlashDot(view, 1) > Len(view)
         \/ At(view, SlashDot(view, 1) + 2) \notin {EOF, ".", "/"}
    ELSE IF IsSpecial(scheme) THEN PathSignature(view) = {}
    ELSE PathSignature(view) \cap {"encoding", "dot", "percent"} = {}
\* url.pathname of a path
ConsumePreparedPath(view, scheme) ==
    IF TrivialPath(view, scheme) THEN <<"/">> \o view ELSE PreparedPath(view, <<>>, scheme)
\* what the parser returns
Failure == [host |-> "fail", pathname |-> <<>>]
Parsed(pathname) == [host |-> "ok", pathname |-> pathname]
\* the characters from p up to the query or the fragment
View(s, p) == Sub(s, p, Find(s, p, {"?", "#"}) - 1)
\* path state, the path starting at p with its first segment: the query
\* and the fragment that may follow are not read
PathState(s, p, scheme) == Parsed(ConsumePreparedPath(View(s, p), scheme))
\* path start state
PathStartState(s, p, scheme) ==
    IF IsSpecial(scheme)
    THEN PathState(s, IF IsSlash(At(s, p), scheme) THEN p + 1 ELSE p, scheme)
    ELSE IF At(s, p) \in {"?", "#", EOF} THEN Parsed(<<>>)
    ELSE PathState(s, IF At(s, p) = "/" THEN p + 1 ELSE p, scheme)
\* opaque path state: the characters up to the query or the fragment, the
\* control characters encoded
OpaquePathState(s, p) == Parsed(PercentEncode(View(s, p), {"\f"}))

\* ---- the authority ----
\* the first colon of a host and port that is not inside brackets
RECURSIVE PortColon(_, _, _)
PortColon(s, p, insideBrackets) ==
    IF p > Len(s) \/ (s[p] = ":" /\ ~insideBrackets) THEN p
    ELSE PortColon(s, p + 1, IF s[p] = "[" THEN TRUE ELSE IF s[p] = "]" THEN FALSE
                             ELSE insideBrackets)
\* port state: digits only, and a number of 16 bits
RECURSIVE PortValue(_, _)
PortValue(digits, n) ==
    IF digits = <<>> THEN n
    ELSE PortValue(Tail(digits), IF n * 10 + DigitValue(Head(digits)) > 65535 THEN 65536
                                 ELSE n * 10 + DigitValue(Head(digits)))
PortState(buffer) == All(buffer, Digits) /\ PortValue(buffer, 0) <= 65535
\* host state, on what follows the credentials: the verdict on the host and
\* the port
HostState(s, scheme) ==
    IF PortColon(s, 1, FALSE) <= Len(s)
    THEN IF PortColon(s, 1, FALSE) = 1 THEN "fail"
         ELSE IF ~PortState(From(s, PortColon(s, 1, FALSE) + 1)) THEN "fail"
         ELSE HostParser(Sub(s, 1, PortColon(s, 1, FALSE) - 1), ~IsSpecial(scheme))
    ELSE IF s = <<>> THEN (IF IsSpecial(scheme) THEN "fail" ELSE "ok")
    ELSE HostParser(s, ~IsSpecial(scheme))
\* the credentials end at the last @ of the authority; nothing may be
\* missing after it
Credentials(authority) == FindLast(authority, Len(authority), "@")
AuthorityVerdict(authority, scheme) ==
    IF Credentials(authority) > 0 /\ Credentials(authority) = Len(authority) THEN "fail"
    ELSE HostState(From(authority, Credentials(authority) + 1), scheme)
\* the result of the path under the verdict on the host
Under(verdict, url) == IF verdict = "fail" THEN Failure ELSE [url EXCEPT !.host = verdict]
\* authority state at p: the authority, then the path
AuthorityState(s, p, scheme) ==
    Under(AuthorityVerdict(Sub(s, p, Find(s, p, Terminators(scheme)) - 1), scheme),
          PathStartState(s, Find(s, p, Terminators(scheme)), scheme))
\* special authority ignore slashes state: slashes and backslashes are
\* skipped
SpecialAuthorityIgnoreSlashesState(s, p, scheme) ==
    AuthorityState(s, Span(s, p, {"/", "\\"}), scheme)
\* special authority slashes state
SpecialAuthoritySlashesState(s, p, scheme) ==
    SpecialAuthorityIgnoreSlashesState(
        s, IF At(s, p) = "/" /\ At(s, p + 1) = "/" THEN p + 2 ELSE p, scheme)

\* ---- the states before the authority ----
\* relative slash state
RelativeSlashState(s, p) ==
    IF At(s, p) \in {"/", "\\"} THEN SpecialAuthorityIgnoreSlashesState(s, p + 1, "http")
    ELSE PathState(s, p, "http")
\* relative state: the scheme is that of the base; without a path of its
\* own the input has the path of the base
RelativeState(s, p) ==
    IF At(s, p) \in {"/", "\\"} THEN RelativeSlashState(s, p + 1)
    ELSE IF At(s, p) \in {"?", "#", EOF} THEN Parsed(<<"/">>)
    ELSE PathState(s, p, "http")
\* special relative or authority state
SpecialRelativeOrAuthorityState(s, p) ==
    IF At(s, p) = "/" /\ At(s, p + 1) = "/"
    THEN SpecialAuthorityIgnoreSlashesState(s, p + 2, "http")
    ELSE RelativeState(s, p)
\* path or authority state
PathOrAuthorityState(s, p) ==
    IF At(s, p) = "/" THEN AuthorityState(s, p + 1, "other") ELSE PathState(s, p, "other")
\* file host state: a drive letter is a segment of the path, anything else
\* a host
FileHostState(s, p) ==
    IF WindowsDriveLetter(Sub(s, p, Find(s, p, Terminators("file")) - 1))
    THEN PathState(s, p, "file")
    ELSE IF Find(s, p, Terminators("file")) = p THEN PathStartState(s, p, "file")
    ELSE Under(HostParser(Sub(s, p, Find(s, p, Terminators("file")) - 1), FALSE),
               PathStartState(s, Find(s, p, Terminators("file")), "file"))
\* file state and file slash state, under a base that is no file URL
FileSlashState(s, p) ==
    IF At(s, p) \in {"/", "\\"} THEN FileHostState(s, p + 1) ELSE PathState(s, p, "file")
FileState(s, p) ==
    IF At(s, p) \in {"/", "\\"} THEN FileSlashState(s, p + 1) ELSE PathState(s, p, "file")
\* scheme state, at the colon that ends the scheme
AfterScheme(s, p, scheme) ==
    IF scheme = "file" THEN FileState(s, p + 1)
    ELSE IF scheme = "http" THEN SpecialRelativeOrAuthorityState(s, p + 1)
    ELSE IF scheme = "special" THEN SpecialAuthoritySlashesState(s, p + 1, scheme)
    ELSE IF At(s, p + 1) = "/" THEN PathOrAuthorityState(s, p + 2)
    ELSE OpaquePathState(s, p + 1)
\* scheme start state and scheme state: a letter, then letters, digits, +,
\* - and ., then a colon; without them the input has no scheme
SchemeEnd(s) == Span(s, 1, Alpha \cup Digits \cup {"+", "-", "."})
BasicUrlParser(s) ==
    IF At(s, 1) \in Alpha /\ At(s, SchemeEnd(s)) = ":"
    THEN AfterScheme(s, SchemeEnd(s), SchemeOf(Lowered(Sub(s, 1, SchemeEnd(s) - 1))))
    ELSE RelativeState(s, 1)

\* The outcomes of new URL(input, base): it throws, or it returns a URL with
\* a pathname.  Where the tables of IDNA decide on the host, either.
ParseUrl(input) ==
    {[fails |-> TRUE, pathname |-> <<>>] : x \in {BasicUrlParser(Stripped(input)).host}
                                             \cap {"fail", "either"}}
    \cup {[fails |-> FALSE, pathname |-> BasicUrlParser(Stripped(input)).pathname] :
              x \in {BasicUrlParser(Stripped(input)).host} \cap {"ok", "either"}}

\* the outcomes of new URL(req.url || '/', base) for each target
Urls == [target \in Targets |-> ParseUrl(TargetOrRoot(target))]

\* the health status whatever the flag
HealthStatusAlways(flag) == "healthy"

\* exporter.isShuttingDown() ? 'shutting_down' : 'healthy'
HealthStatus(flag) == IF flag THEN "shutting_down" ELSE "healthy"

\* the answers of the handler: a status code and a body
NoMetrics == <<>>
HealthAnswer(flag) ==
    [code |-> 200, kind |-> "health", status |-> HealthStatus(flag), metrics |-> NoMetrics]
MetricsAnswer(reg) == [code |-> 200, kind |-> "metrics", status |-> "", metrics |-> reg]
NotFound == [code |-> 404, kind |-> "empty", status |-> "", metrics |-> NoMetrics]
NoAnswer == [code |-> 0, kind |-> "none", status |-> "", metrics |-> NoMetrics]

\* the branches of the handler on url.pathname
Respond(pathname, flag, reg) ==
    IF pathname = <<"/">> \o Health THEN HealthAnswer(flag)
    ELSE IF pathname = <<"/">> \o Metrics THEN MetricsAnswer(reg)
    ELSE NotFound

\* server.listen(config.port) on a port that is free or not.  On a port in
\* use the server does not listen, and its 'error' waits to be emitted
\* while the caller goes on.
Listen(inUse) ==
    /\ Alive
    /\ ~listening
    /\ ~serverError
    /\ listening' = ~inUse
    /\ serverError' = inUse
    /\ ev' = Quiet("listen")
    /\ UNCHANGED <<registry, snapshots, scheduler, cycles, now, started, rejected,
                   main, exitCode, probe, client, hist>>

\* The handler runs for a request.  When new URL(...) throws, the promise of
\* the async handler rejects with nobody to handle it: no answer is sent and
\* the process ends with code 1.
Handle(target, url) ==
    /\ ev' = [op |-> "http", done |-> FALSE, target |-> target, answered |-> ~url.fails,
              answer |-> IF url.fails THEN NoAnswer
                         ELSE Respond(url.pathname, shutdownEvent, registry)]
    /\ main' = IF url.fails THEN "exited" ELSE main
    /\ exitCode' = IF url.fails THEN 1 ELSE exitCode
HttpRequest(target) ==
    /\ Alive
    /\ listening
    /\ NextCallback
    /\ \E url \in Urls[target] : Handle(target, url)
    /\ UNCHANGED <<registry, snapshots, scheduler, cycles, now, started, rejected,
                   listening, serverError, probe, client, hist>>

\* the scrape cycles, with the full choice of inventories
Next ==
    \/ (CallUpdateMetrics) /\ UNCHANGED outside
    \/ (\E i \in 1..Len(cycles) : ResponseHeaders(i)) /\ UNCHANGED outside
    \/ (\E i \in 1..Len(cycles) : VersionReply(i, Upstream)) /\ UNCHANGED outside
    \/ (\E i \in 1..Len(cycles) : TagsReply(i, Upstream)) /\ UNCHANGED outside
    \/ (\E i \in 1..Len(cycles) : PsReply(i, Upstream)) /\ UNCHANGED outside
    \/ (\E i \in 1..Len(cycles) : UpdateMetricsResumes(i)) /\ UNCHANGED outside

Spec == Init /\ [][Next]_vars

\* the scrape cycles, with the full choice of running models
NextRunning ==
    \/ (CallUpdateMetrics) /\ UNCHANGED outside
    \/ (\E i \in 1..Len(cycles) : ResponseHeaders(i)) /\ UNCHANGED outside
    \/ (\E i \in 1..Len(cycles) : VersionReply(i, RunningUpstream)) /\ UNCHANGED outside
    \/ (\E i \in 1..Len(cycles) : TagsReply(i, RunningUpstream)) /\ UNCHANGED outside
    \/ (\E i \in 1..Len(cycles) : PsReply(i, RunningUpstream)) /\ UNCHANGED outside
    \/ (\E i \in 1..Len(cycles) : UpdateMetricsResumes(i)) /\ UNCHANGED outside

SpecRunning == Init /\ [][NextRunning]_vars

\* the metrics loop: any calls of updateMetrics, startMetricsLoop and
\* shutdown, and the timers firing
NextLoop ==
    \/ (CallUpdateMetrics) /\ UNCHANGED outside
    \/ (StartMetricsLoop) /\ UNCHANGED outside
    \/ (\E t \in 1..MaxTimers : PeriodElapses(t)) /\ UNCHANGED outside
    \/ (\E t \in 1..MaxTimers : MetricsLoop(t)) /\ UNCHANGED outside
    \/ (Shutdown) /\ UNCHANGED outside
    \/ (\E i \in 1..Len(cycles) : ResponseHeaders(i)) /\ UNCHANGED outside
    \/ (\E i \in 1..Len(cycles) : VersionReply(i, LoopUpstream)) /\ UNCHANGED outside
    \/ (\E i \in 1..Len(cycles) : TagsReply(i, LoopUpstream)) /\ UNCHANGED outside
    \/ (\E i \in 1..Len(cycles) : PsReply(i, LoopUpstream)) /\ UNCHANGED outside
    \/ (\E i \in 1..Len(cycles) : UpdateMetricsResumes(i)) /\ UNCHANGED outside

SpecLoop == Init /\ [][NextLoop]_vars

\* main of index.ts, in either mode, with its timer and the signals
NextMain ==
    \/ MainValidate
    \/ ProbeHeaders
    \/ ProbeReply(LoopUpstream)
    \/ \E inUse \in BOOLEAN : MainStart(inUse)
    \/ MainStartLoop
    \/ ListenError
    \/ \E t \in 1..MaxTimers : MainPeriodElapses(t)
    \/ \E t \in 1..MaxTimers : MainTick(t)
    \/ Signal
    \/ (Alive /\ \E i \in 1..Len(cycles) : ResponseHeaders(i)) /\ UNCHANGED outside
    \/ (Alive /\ \E i \in 1..Len(cycles) : VersionReply(i, LoopUpstream)) /\ UNCHANGED outside
    \/ (Alive /\ \E i \in 1..Len(cycles) : TagsReply(i, LoopUpstream)) /\ UNCHANGED outside
    \/ (Alive /\ \E i \in 1..Len(cycles) : PsReply(i, LoopUpstream)) /\ UNCHANGED outside
    \/ (Alive /\ \E i \in 1..Len(cycles) : UpdateMetricsResumes(i)) /\ UNCHANGED outside

SpecMain == Init /\ [][NextMain]_vars

\* the HTTP server beside an exporter whose cycles run and which can be
\* shut down
NextServer ==
    \/ \E inUse \in BOOLEAN : Listen(inUse)
    \/ ListenError
    \/ \E target \in Targets : HttpRequest(target)
    \/ (Alive /\ CallUpdateMetrics) /\ UNCHANGED outside
    \/ (Alive /\ Shutdown) /\ UNCHANGED outside
    \/ (Alive /\ \E i \in 1..Len(cycles) : ResponseHeaders(i)) /\ UNCHANGED outside
    \/ (Alive /\ \E i \in 1..Len(cycles) : VersionReply(i, LoopUpstream)) /\ UNCHANGED outside
    \/ (Alive /\ \E i \in 1..Len(cycles) : TagsReply(i, LoopUpstream)) /\ UNCHANGED outside
    \/ (Alive /\ \E i \in 1..Len(cycles) : PsReply(i, LoopUpstream)) /\ UNCHANGED outside
    \/ (Alive /\ \E i \in 1..Len(cycles) : UpdateMetricsResumes(i)) /\ UNCHANGED outside

SpecServer == Init /\ [][NextServer]_vars

\* calls of FetchHttpClient.request, one at a time
NextFetch ==
    \/ \E timeout \in Timeouts, signal \in BOOLEAN, method \in {Undef, "POST"},
          body \in {Undef, "", "{}"} : ClientRequest(timeout, signal, method, body)
    \/ TimeoutFires
    \/ CallerAborts
    \/ FetchSettles

SpecFetch == Init /\ [][NextFetch]_vars

\* the scrape cycles against a server whose version changes
NextVersion ==
    \/ (CallUpdateMetrics) /\ UNCHANGED outside
    \/ (\E i \in 1..Len(cycles) : ResponseHeaders(i)) /\ UNCHANGED outside
    \/ (\E i \in 1..Len(cycles) : VersionReply(i, VersionUpstream)) /\ UNCHANGED outside
    \/ (\E i \in 1..Len(cycles) : TagsReply(i, VersionUpstream)) /\ UNCHANGED outside
    \/ (\E i \in 1..Len(cycles) : PsReply(i, VersionUpstream)) /\ UNCHANGED outside
    \/ (\E i \in 1..Len(cycles) : UpdateMetricsResumes(i)) /\ UNCHANGED outside

SpecVersion == Init /\ [][NextVersion]_vars

\* the engine with FetchHttpClient and a server that may stall; the timer,
\* the rejection of an aborted fetch and the pending promise jobs are the
\* only steps that are bound to happen
NextStall ==
    \/ EngineCall
    \/ TimeoutFires
    \/ EngineAborted
    \/ EngineFails
    \/ EngineHeaders
    \/ EngineBody
    \/ EngineResume

SpecStall ==
    /\ Init /\ [][NextStall]_vars
    /\ WF_vars(TimeoutFires) /\ WF_vars(EngineAborted) /\ WF_vars(EngineResume)

\* /metrics is read while the scrape cycles run
NextScrape ==
    \/ \E inUse \in BOOLEAN : Listen(inUse)
    \/ ListenError
    \/ \E target \in {Target(<<"/">> \o Metrics)} : HttpRequest(target)
    \/ (Alive /\ CallUpdateMetrics) /\ UNCHANGED outside
    \/ (Alive /\ \E i \in 1..Len(cycles) : ResponseHeaders(i)) /\ UNCHANGED outside
    \/ (Alive /\ \E i \in 1..Len(cycles) : VersionReply(i, ScrapeUpstream)) /\ UNCHANGED outside
    \/ (Alive /\ \E i \in 1..Len(cycles) : TagsReply(i, ScrapeUpstream)) /\ UNCHANGED outside
    \/ (Alive /\ \E i \in 1..Len(cycles) : PsReply(i, ScrapeUpstream)) /\ UNCHANGED outside
    \/ (Alive /\ \E i \in 1..Len(cycles) : UpdateMetricsResumes(i)) /\ UNCHANGED outside

SpecScrape == Init /\ [][NextScrape]_vars

\* cycles run one after another against a server whose inventory changes
NextHeal ==
    \/ HealCall
    \/ TwiceHeaders
    \/ HealReply
    \/ TwiceResume

SpecHeal == Init /\ [][NextHeal]_vars

\* cycles run one after another
NextTwice ==
    \/ TwiceCall
    \/ TwiceHeaders
    \/ TwiceReply
    \/ TwiceResume

SpecTwice == Init /\ [][NextTwice]_vars

(***************************************************************************)
(* Properties                                                              *)
(***************************************************************************)
ScrapesOf(g, status) == IF <<status>> \in DOMAIN g THEN g[<<status>>] ELSE 0

\* the three steps of the cycle of event e succeeded
AllOk(e) == e.health = "ok" /\ e.inventory = "ok" /\ e.running = "ok"

\* the reply was read and carries a models list of objects
ModelsList(data) ==
    /\ Truthy(data)
    /\ data.hasModels
    /\ \A i \in 1..Len(data.models) : ~data.models[i].isnull

\* the names of the entries of a models list
ListNames(data) == {OrS(data.models[i].name, "unknown") : i \in 1..Len(data.models)}

ReplySteps == {"version", "tags", "ps"}

\* C1: when the inventory reply is a models list, no name of the previous
\* lastModels that is absent from the list keeps a model_info,
\* model_size_bytes or model_modified_timestamp series.
C1_StaleModelSeriesRemoved ==
    [][(ev'.op = "tags" /\ ModelsList(ev'.data)) =>
          \A name \in MapKeySet(lastModels) \ ListNames(ev'.data) :
              /\ name \notin SeriesNames(OLLAMA_MODEL_INFO')
              /\ name \notin SeriesNames(OLLAMA_MODEL_SIZE_BYTES')
              /\ name \notin SeriesNames(OLLAMA_MODEL_MODIFIED_TIMESTAMP')]_vars

\* C2: after a cycle whose running update succeeded, the names with a
\* running_models series are the names of that cycle's /api/ps reply, each
\* with value 1.
C2_RunningSeriesAreCurrent ==
    (ev.op = "ps" /\ ev.running = "ok") =>
        /\ SeriesNames(OLLAMA_RUNNING_MODELS) = ListNames(ev.data)
        /\ \A k \in DOMAIN OLLAMA_RUNNING_MODELS : OLLAMA_RUNNING_MODELS[k] = 1

\* C3: a step that reads an inventory reply carrying a models list leaves
\* models_total at the number of its entries; a step whose inventory fetch
\* failed leaves models_total unchanged.
C3_ModelsTotalIsInventoryLength ==
    [][ev'.op = "tags" =>
          /\ ModelsList(ev'.data) => OLLAMA_MODELS_TOTAL' = Len(ev'.data.models)
          /\ ev'.failure # "none" => OLLAMA_MODELS_TOTAL' = OLLAMA_MODELS_TOTAL]_vars

\* C4: the step that ends a cycle adds 1 to scrapes_total{status=success} if
\* the probe and both updates succeeded, and 1 to scrapes_total{status=error}
\* otherwise; no other step changes the counter; every call of updateMetrics
\* that has ended was counted once.
C4_ScrapesTotalOncePerCycle ==
    [][/\ ev'.done =>
            /\ ScrapesOf(OLLAMA_EXPORTER_SCRAPES_TOTAL', "success") =
                   ScrapesOf(OLLAMA_EXPORTER_SCRAPES_TOTAL, "success")
                       + (IF AllOk(ev') THEN 1 ELSE 0)
            /\ ScrapesOf(OLLAMA_EXPORTER_SCRAPES_TOTAL', "error") =
                   ScrapesOf(OLLAMA_EXPORTER_SCRAPES_TOTAL, "error")
                       + (IF AllOk(ev') THEN 0 ELSE 1)
       /\ ~ev'.done => OLLAMA_EXPORTER_SCRAPES_TOTAL' = OLLAMA_EXPORTER_SCRAPES_TOTAL
       /\ ScrapesOf(OLLAMA_EXPORTER_SCRAPES_TOTAL', "success")
              + ScrapesOf(OLLAMA_EXPORTER_SCRAPES_TOTAL', "error")
              + Len(cycles') = started']_vars

\* a cycle counted as success and a cycle counted as error have ended
C4_Witness == Scrapes("success") = 1 /\ Scrapes("error") = 1

\* C5: a step writes last_scrape_timestamp_seconds only if it ends a cycle
\* whose probe and both updates succeeded, and that step counts the cycle
\* under status=success.
C5_LastScrapeOnlyOnSuccess ==
    [][(\/ OLLAMA_EXPORTER_LAST_SCRAPE_TIMESTAMP' # OLLAMA_EXPORTER_LAST_SCRAPE_TIMESTAMP
        \/ (ev'.done /\ ev'.wrote)) =>
          /\ ev'.done
          /\ AllOk(ev')
          /\ ev'.status = "success"
          /\ ScrapesOf(OLLAMA_EXPORTER_SCRAPES_TOTAL', "success") =
                 ScrapesOf(OLLAMA_EXPORTER_SCRAPES_TOTAL, "success") + 1]_vars

\* a cycle wrote the timestamp after an earlier cycle had failed
C5_Witness ==
    /\ ev.done
    /\ ev.wrote
    /\ OLLAMA_EXPORTER_LAST_SCRAPE_TIMESTAMP = now
    /\ Scrapes("error") = 1

\* C6: no call of updateMetrics rejects; a cycle in which an exception
\* reached the catch of updateMetrics, or in which an update failed, ends
\* counted under status=error.
C6_UpdateMetricsNeverRejects ==
    /\ ~rejected
    /\ (ev.done /\ ev.threw) => (ev.status = "error" /\ Scrapes("error") >= 1)
    /\ (ev.done /\ (ev.inventory = "failed" \/ ev.running = "failed")) =>
           ev.status = "error"

\* a cycle ended by an exception thrown in checkOllamaHealth
C6_Witness == ev.done /\ ev.threw /\ ev.health = "threw" /\ Len(cycles) = 0

\* C7: a cycle whose health probe failed sets server_up to 0, ends with
\* status error and has issued the version request only.
C7_FailedProbeSkipsBody ==
    (ev.done /\ ev.health = "failed") =>
        /\ OLLAMA_UP = 0
        /\ ev.status = "error"
        /\ ev.requests = <<"version">>
        /\ ev.inventory = "skipped"
        /\ ev.running = "skipped"

\* a cycle ended on a failed probe after a cycle that had found the server up
C7_Witness == ev.done /\ ev.health = "failed" /\ Scrapes("success") = 1

\* C8: a cycle whose health probe succeeded ends having issued version,
\* tags, ps in this order; a suspended cycle awaits the last request it
\* issued, so no request is issued before the previous one was answered.
C8_HealthyCycleOrder ==
    /\ (ev.done /\ ev.health = "ok") =>
           /\ ev.requests = <<"version", "tags", "ps">>
           /\ ev.step = "ps"
           /\ ev.status # "pending"
    /\ \A i \in 1..Len(cycles) :
           /\ cycles[i].requests \in
                  {<<"version">>, <<"version", "tags">>, <<"version", "tags", "ps">>}
           /\ cycles[i].requests[Len(cycles[i].requests)] = cycles[i].endpoint

\* a healthy cycle ended although its inventory update had failed
C8_Witness == ev.done /\ ev.health = "ok" /\ ev.inventory = "failed" /\ ev.running = "ok"

\* C9: apiRequest never throws, and for every kind of failure (the client
\* throws, returns null, returns a non-2xx response, or json() rejects) it
\* returns null, on which the step of the caller returns false.
C9_ApiRequestNeverThrows ==
    ev.op \in ReplySteps =>
        /\ ~ev.apiThrew
        /\ ev.failure # "none" =>
               /\ ev.data = Null
               /\ ev.op = "version" => ev.health = "failed"
               /\ ev.op = "tags" => ev.inventory = "failed"
               /\ ev.op = "ps" => ev.running = "failed"

\* the body of the /api/tags reply could not be read
C9_Witness == ev.op = "tags" /\ ev.failure = "json" /\ ev.inventory = "failed"

\* C10: the shutdown flag is never reset; a timer that fires while it is set
\* starts no cycle and writes nothing; shutdown() sets the flag, cancels the
\* timer held in metricsInterval and emits 'shutdown'.
C10_ShutdownStopsLoop ==
    [][/\ shutdownEvent => shutdownEvent'
       /\ (shutdownEvent /\ ev'.op = "tick") =>
              UNCHANGED <<registry, snapshots, cycles, started>>
       /\ ev'.op = "shutdown" =>
              /\ shutdownEvent'
              /\ metricsInterval \notin timers'
              /\ emitted' = emitted + 1]_vars

\* a timer fired after shutdown(), with a cycle still suspended
C10_Witness == ev.op = "tick" /\ shutdownEvent /\ timers # {} /\ Len(cycles) > 0

\* C11: main never has two scrape cycles suspended at once: the timer
\* starts no cycle while an earlier one still awaits an upstream call.
C11_OneActiveCycle == Len(cycles) <= 1

\* the cycles that have ended and were counted in scrapes_total
Counted == Scrapes("success") + Scrapes("error")

\* C15: main starts exactly one cycle before it arms the timer, and arms the
\* timer only when that cycle has ended and was counted in scrapes_total,
\* with the whole period of the timer still to run; every later cycle is
\* started by the timer, and the first of them when the period of the timer
\* has run out: no earlier than one full period after the startup cycle
\* ended.
C15_StartupCycleFirst ==
    /\ [](/\ main \in {"init", "validate"} => (started = 0 /\ timers = {})
          /\ main = "startup" => (started = 1 /\ timers = {} /\ metricsInterval = NoTimer)
          /\ (timers # {} \/ metricsInterval # NoTimer) => Counted >= 1
          /\ started > 1 => metricsInterval # NoTimer
          /\ (ev.op = "tick" /\ Alive) => (main = "running" /\ started >= 2)
          /\ elapsed \subseteq timers)
    /\ [][/\ metricsInterval' # metricsInterval =>
                 /\ started = 1 /\ cycles = <<>> /\ Counted = 1
                 /\ timers' = {metricsInterval'}
                 /\ elapsed' = {}
          /\ elapsed' # elapsed =>
                 \/ ev'.op = "period" /\ elapsed = {} /\ elapsed' = timers /\ cycles = cycles'
                 \/ ev'.op \in {"tick", "shutdown"} /\ elapsed' = {} /\ elapsed = timers
          /\ started' # started =>
                 \/ started = 0 /\ ev'.op = "call" /\ main = "init"
                 \/ /\ started >= 1
                    /\ ev'.op = "tick"
                    /\ metricsInterval \in elapsed
                    /\ Counted >= 1]_vars

\* the timer fired for the first time, one period after it was armed, after
\* the initial scrape had failed
C15_Witness ==
    /\ ev.op = "tick"
    /\ started = 2
    /\ Scrapes("error") = 1
    /\ Len(cycles) = 1
    /\ timers = {metricsInterval}
    /\ elapsed = {}

\* C18: the validate-only mode issues the version request and nothing else,
\* starts no server, no cycle and no timer, and the process ends with code
\* 0 if the probe read a body and nothing threw, with code 1 otherwise.
C18_ValidateOnly ==
    /\ probe.await # "none" =>
           /\ probe.requests = <<"version">>
           /\ ~listening
           /\ started = 0 /\ cycles = <<>>
           /\ timers = {} /\ metricsInterval = NoTimer
           /\ Scrapes("success") + Scrapes("error") = 0
    /\ probe.await \in {"request", "json"} => (main = "validate" /\ exitCode = NotExited)
    /\ probe.await = "done" =>
           /\ main = "exited"
           /\ ev.op = "probe"
           /\ exitCode = IF ev.failure = "none" /\ Truthy(ev.data) /\ ~ev.threw
                         THEN 0 ELSE 1

\* the validate-only mode ended with code 1 on a non-2xx reply
C18_Witness ==
    /\ ev.op = "probe"
    /\ ev.failure = "status"
    /\ exitCode = 1
    /\ main = "exited"

\* C13: when a cycle ends, server_up is 1 if its health probe succeeded and
\* 0 if its health probe failed, and it holds no other value.
C13_ServerUpIsThisProbe ==
    /\ OLLAMA_UP \in {0, 1}
    /\ ev.done =>
           /\ ev.health = "ok" => OLLAMA_UP = 1
           /\ ev.health = "failed" => OLLAMA_UP = 0

\* C19: a step in which the inventory fetch failed leaves lastModels,
\* models_total and the three per-model inventory gauges as they were, and
\* updateModelMetrics returns false; when updateMetrics resumes on that
\* result the cycle goes on marked failed: success is false from then on,
\* and the running request is issued.
C19_InventoryFailureFrame ==
    [][/\ (ev'.op = "tags" /\ ev'.failure # "none") =>
              /\ UNCHANGED <<lastModels, OLLAMA_MODELS_TOTAL, OLLAMA_MODEL_INFO,
                             OLLAMA_MODEL_SIZE_BYTES, OLLAMA_MODEL_MODIFIED_TIMESTAMP>>
              /\ ev'.inventory = "failed"
       /\ (ev'.op = "resume" /\ ev'.step = "tags" /\ ev'.inventory = "failed") =>
              /\ ~ev'.done
              /\ \E i \in 1..Len(cycles') :
                     /\ cycles'[i].inventory = "failed"
                     /\ ~cycles'[i].success
                     /\ cycles'[i].endpoint = "ps"
       /\ \A i \in 1..Len(cycles) :
              (cycles[i].inventory = "failed" /\ cycles[i].endpoint = "ps") =>
                  ~cycles[i].success]_vars

\* the inventory fetch failed while an earlier inventory is in the registry
C19_Witness ==
    /\ ev.op = "tags"
    /\ ev.failure = "status"
    /\ OLLAMA_MODELS_TOTAL = 2
    /\ Len(lastModels) = 2
    /\ DOMAIN OLLAMA_MODEL_SIZE_BYTES # {}

\* C20: a step in which the running-models fetch failed leaves
\* lastRunningModels and the two per-model running gauges as they were (no
\* series of the previous names is removed), and updateRunningMetrics
\* returns false; when updateMetrics resumes on that result the cycle ends
\* counted as an error.
C20_RunningFailureFrame ==
    [][/\ (ev'.op = "ps" /\ ev'.failure # "none") =>
              /\ UNCHANGED <<lastRunningModels, OLLAMA_RUNNING_MODELS,
                             OLLAMA_MODEL_MEMORY_BYTES>>
              /\ ev'.running = "failed"
       /\ (ev'.op = "resume" /\ ev'.step = "ps" /\ ev'.running = "failed") =>
              /\ ev'.done
              /\ ev'.status = "error"
              /\ ScrapesOf(OLLAMA_EXPORTER_SCRAPES_TOTAL', "error") =
                     ScrapesOf(OLLAMA_EXPORTER_SCRAPES_TOTAL, "error") + 1]_vars

\* the running-models fetch failed while two models are in the registry
C20_Witness ==
    /\ ev.op = "ps"
    /\ ev.failure = "null"
    /\ lastRunningModels = {"A", "B"}
    /\ SeriesNames(OLLAMA_RUNNING_MODELS) = {"A", "B"}
    /\ DOMAIN OLLAMA_MODEL_MEMORY_BYTES # {}

\* The targets of Targets that ask for /health, and those that ask for
\* /metrics, written out: with a query, behind an authority or a scheme,
\* with a dot segment.  What the handler answers them is for the URL parser
\* and the branches of the handler to decide.
HealthTargets ==
    {Target(<<"/">> \o Health),
     Target(<<"/">> \o Health \o <<"?", "v", "=", "1">>),
     Target(<<"/", "\\", "x", "/">> \o Health),
     Target(<<"/", "/", "[", ":", ":", "1", "]", "/">> \o Health),
     Target(<<"/", ".", "/">> \o Health),
     Target(<<"h", "t", "t", "p", ":", "/", "/", "h", "/">> \o Health)}
MetricsTargets ==
    {Target(<<"/">> \o Metrics),
     Target(<<"/", "/", "u", "@", "x", ":", "8", "0", "/">> \o Metrics),
     Target(<<"/", "x", "/", ".", ".", "/">> \o Metrics),
     Target(<<"f", "o", "o", ":", "/", "/", "h", "/">> \o Metrics)}

\* C14: a request for /health is answered 200 with status "healthy" when
\* the shutdown flag is not set and "shutting_down" when it is set,
\* whatever the cycles have done or are doing.
C14_HealthFollowsFlagOnly ==
    (ev.op = "http" /\ ev.target \in HealthTargets) =>
        /\ ev.answered
        /\ ev.answer.code = 200
        /\ ev.answer.kind = "health"
        /\ ev.answer.status = IF shutdownEvent THEN "shutting_down" ELSE "healthy"

\* /health answered "healthy" after a cycle had found the upstream down and
\* while another cycle is in flight
C14_Witness ==
    /\ ev.op = "http"
    /\ ev.target \in HealthTargets
    /\ ev.answer.status = "healthy"
    /\ OLLAMA_UP = 0
    /\ Scrapes("error") = 1
    /\ Len(cycles) = 1

\* C17: every request is answered: /health with 200 and the health JSON,
\* /metrics with 200 and the registry, any other path with 404 and an empty
\* body; serving a request changes neither the registry, the snapshots nor
\* the shutdown flag.
C17_EveryPathOneOutcome ==
    [][ev'.op = "http" =>
          /\ ev'.answered
          /\ ev'.answer.code = IF ev'.target \in HealthTargets \cup MetricsTargets
                               THEN 200 ELSE 404
          /\ ev'.answer.kind = IF ev'.target \in HealthTargets THEN "health"
                               ELSE IF ev'.target \in MetricsTargets THEN "metrics"
                               ELSE "empty"
          /\ ev'.target \in MetricsTargets => ev'.answer.metrics = registry
          /\ UNCHANGED <<registry, snapshots, shutdownEvent>>]_vars

\* C16: a call of FetchHttpClient.request that has returned did not
\* reject; it returned null if fetch rejected, and otherwise a response with
\* the ok, status and statusText of the one fetch resolved with; its timeout
\* timer, if it armed one, is no longer armed.
C16_RequestNeverRejects ==
    client.stage = "returned" =>
        /\ ~client.rejected
        /\ client.fetched.kind # "resolves" => client.isnull
        /\ client.fetched.kind = "resolves" =>
               /\ ~client.isnull
               /\ client.ok = client.fetched.ok
               /\ client.status = client.fetched.status
               /\ client.statusText = client.fetched.statusText
        /\ client.timer = IF client.timeout = 0 THEN "none"
                          ELSE IF client.aborted THEN "fired" ELSE "cleared"

\* request returned null after its timeout had aborted fetch
C16_Witness ==
    /\ client.stage = "returned"
    /\ client.fetched = AbortError
    /\ client.timer = "fired"
    /\ ~client.signal
    /\ client.isnull

\* the cycle read a body from each of the three endpoints
AllRead(bodies) == Truthy(bodies.version) /\ Truthy(bodies.tags) /\ Truthy(bodies.ps)
\* cycle k and the next one read the same three bodies
SameTwice(k) ==
    /\ AllRead(hist.ended[k].bodies)
    /\ hist.ended[k + 1].bodies = hist.ended[k].bodies
WithoutScrapes(content) == [content EXCEPT !.scrapes = NoSeries]
ScrapesCounted(content) ==
    ScrapesOf(content.scrapes, "success") + ScrapesOf(content.scrapes, "error")

C21_RunningAttemptedAnyway ==
    /\ (ev.op = "resume" /\ ev.step = "tags") =>
           /\ ~ev.done
           /\ ev.requests = <<"version", "tags", "ps">>
    /\ (ev.done /\ ev.health = "ok") =>
           /\ ev.step = "ps"
           /\ ev.inventory \in {"ok", "failed"}
           /\ ev.running \in {"ok", "failed"}
    /\ (ev.op = "ps" /\ ev.inventory = "failed" /\ ModelsList(ev.data)) =>
           /\ ev.running = "ok"
           /\ lastRunningModels = ListNames(ev.data)
           /\ SeriesNames(OLLAMA_RUNNING_MODELS) = ListNames(ev.data)
    /\ (ev.op = "resume" /\ ev.step = "ps" /\ ev.inventory = "failed") =>
           /\ ev.done
           /\ ev.status = "error"

\* after a failed inventory step, the running step put model A in the
\* running series
C21_Witness ==
    /\ ev.op = "resume"
    /\ ev.step = "ps"
    /\ ev.done
    /\ ev.inventory = "failed"
    /\ ev.running = "ok"
    /\ SeriesNames(OLLAMA_RUNNING_MODELS) = {"A"}
    /\ OLLAMA_MODELS_TOTAL = 0

\* the names of the entries of a running-models list whose size_vram is
\* greater than 0
VramNames(data) ==
    {OrS(data.models[i].name, "unknown") :
        i \in {j \in 1..Len(data.models) : OrN(data.models[j].size_vram, 0) > 0}}

\* C22: after a running-models update that succeeded, the names with a
\* model_memory_bytes series are the names of the reply's entries whose
\* size_vram is greater than 0, and every name of the reply has
\* running_models = 1.
C22_MemorySeriesAreCurrent ==
    (ev.op = "ps" /\ ev.running = "ok") =>
        /\ SeriesNames(OLLAMA_MODEL_MEMORY_BYTES) = VramNames(ev.data)
        /\ \A name \in ListNames(ev.data) :
               /\ <<name>> \in DOMAIN OLLAMA_RUNNING_MODELS
               /\ OLLAMA_RUNNING_MODELS[<<name>>] = 1

\* modified_at of the entry is present and Date can parse it
Parses(model) ==
    /\ OrS(model.modified_at, "") # ""
    /\ DateSeconds(model.modified_at) # NaN
\* the step wrote the series of name in gauge g
Wrote(g, h, name) ==
    /\ <<name>> \in DOMAIN h
    /\ (<<name>> \in DOMAIN g => h[<<name>>] # g[<<name>>])

\* C23: an inventory step writes model_modified_timestamp of a name only if
\* the reply holds an entry of that name whose modified_at parses, and no
\* series of the gauge ever holds a value that is not a timestamp; a reply
\* that removes no model and holds an entry whose modified_at does not parse
\* is processed to the end: the update succeeds and every entry has its
\* model_size_bytes series.
C23_ModifiedOnlyIfParses ==
    [][(ev'.op = "tags" /\ ModelsList(ev'.data)) =>
          /\ \A name \in SeriesNames(OLLAMA_MODEL_MODIFIED_TIMESTAMP') :
                 /\ OLLAMA_MODEL_MODIFIED_TIMESTAMP'[<<name>>] # NaN
                 /\ Wrote(OLLAMA_MODEL_MODIFIED_TIMESTAMP,
                          OLLAMA_MODEL_MODIFIED_TIMESTAMP', name) =>
                        \E i \in 1..Len(ev'.data.models) :
                            /\ ModelName(ev'.data.models[i]) = name
                            /\ Parses(ev'.data.models[i])
          /\ MapKeySet(lastModels) \subseteq ListNames(ev'.data) =>
                 /\ ev'.inventory = "ok"
                 /\ ListNames(ev'.data) \subseteq SeriesNames(OLLAMA_MODEL_SIZE_BYTES')]_vars

\* the label a version body is filed under: the version, 'unknown' for a
\* missing or empty one; for an object, the version it carries, if any
VersionLabel(data) == LabelSet(VersionLabels, <<OrS(data.version, "unknown")>>)[1]

\* C24: a step in which the health probe succeeded leaves the version
\* series it found, all of them, and the series of the version it read
\* ('unknown' for a missing or empty version) with value 1; every other step
\* leaves server_version_info as it was; every series has the value 1.
C24_VersionSeriesOnlyGrow ==
    [][/\ (ev'.op = "version" /\ ev'.health = "ok") =>
              /\ DOMAIN OLLAMA_VERSION_INFO' =
                     DOMAIN OLLAMA_VERSION_INFO \cup {<<VersionLabel(ev'.data)>>}
              /\ ev'.failure = "none" /\ Truthy(ev'.data)
       /\ ~(ev'.op = "version" /\ ev'.health = "ok") =>
              OLLAMA_VERSION_INFO' = OLLAMA_VERSION_INFO
       /\ \A k \in DOMAIN OLLAMA_VERSION_INFO' : OLLAMA_VERSION_INFO'[k] = 1]_vars

\* the probe of the second cycle read another version than the first: both
\* series are there
C24_Witness ==
    /\ ev.op = "version"
    /\ ev.health = "ok"
    /\ ev.data.version = "0.1.16"
    /\ DOMAIN OLLAMA_VERSION_INFO = {<<"0.1.15">>, <<"0.1.16">>}

\* C25: when the process has ended after a shutdown signal, no cycle is left
\* suspended: every call of updateMetrics that was started, a cycle in
\* flight at the signal included, has run to its end and was counted in
\* scrapes_total.
C25_InFlightCycleFinishes ==
    (main = "exited" /\ shutdownEvent) =>
        /\ cycles = <<>>
        /\ Scrapes("success") + Scrapes("error") = started

\* C26: every cycle that was started ends, however long the upstream server
\* takes to answer: the timeout ends the call it awaits.
C26_EveryCycleEnds == (cycles # <<>>) ~> (cycles = <<>>)

\* the running series of a registry are those of a reconciliation that ran
\* to its end: the names of lastRunningModels, which is assigned last
RunningWhole(reg) ==
    /\ SeriesNames(reg[7]) = lastRunningModels
    /\ SeriesNames(reg[8]) \subseteq lastRunningModels
\* the inventory series of a registry are those of an inventory update that
\* ran to its end: the keys of lastModels, which is assigned last
InventoryWhole(reg) ==
    /\ SeriesNames(reg[4]) = MapKeySet(lastModels)
    /\ SeriesNames(reg[5]) = MapKeySet(lastModels)
    /\ SeriesNames(reg[6]) \subseteq MapKeySet(lastModels)
    /\ reg[3] >= Len(lastModels)
    /\ reg[3] = 0 <=> lastModels = <<>>

\* C27: the registry a /metrics read is answered with is never that of a
\* reconciliation step applied in part: its running series and its
\* inventory series are those of steps that ran to their end.
C27_ReadsSeeWholeSteps ==
    (ev.op = "http" /\ ev.answer.kind = "metrics") =>
        /\ RunningWhole(ev.answer.metrics)
        /\ InventoryWhole(ev.answer.metrics)

\* C28: an inventory step that read a body and returned false, because an
\* exception was raised while the body was processed, leaves lastModels,
\* models_total and the three per-model inventory gauges as they were.
C28_InventoryAllOrNothing ==
    [][(ev'.op = "tags" /\ ev'.failure = "none" /\ Truthy(ev'.data)
            /\ ev'.inventory = "failed") =>
          UNCHANGED <<lastModels, OLLAMA_MODELS_TOTAL, OLLAMA_MODEL_INFO,
                      OLLAMA_MODEL_SIZE_BYTES, OLLAMA_MODEL_MODIFIED_TIMESTAMP>>]_vars

\* C29: between two steps, that is whenever no inventory update is running,
\* the names with a model_size_bytes series are the keys of lastModels.
C29_SizeSeriesAreSnapshotKeys ==
    SeriesNames(OLLAMA_MODEL_SIZE_BYTES) = MapKeySet(lastModels)

\* C30: after an inventory update that succeeded, the model_info series are
\* those of the entries of the reply, with the label values the reply gives:
\* no series with other label values remains for a name.
C30_InfoSeriesAreCurrent ==
    [][(ev'.op = "tags" /\ ev'.inventory = "ok" /\ ModelsList(ev'.data)) =>
          DOMAIN OLLAMA_MODEL_INFO' =
              {ModelInfoArgs(ev'.data.models[i]) : i \in 1..Len(ev'.data.models)}]_vars

\* C33: when shutdown() has returned, no interval timer created by
\* startMetricsLoop is armed, whatever calls of startMetricsLoop and
\* shutdown came before.
C33_NoTimerAfterShutdown == ev.op = "shutdown" => timers = {}

\* C32: with two cycles in flight, once the cycle that started later has
\* applied its inventory reply, the inventory reply to the earlier cycle
\* changes neither lastModels nor the inventory series; and likewise for
\* the running-models reply.
C32_EarlierReplyNeverOverwrites ==
    [][(Len(cycles) = 2 /\ Len(cycles') >= 1 /\ cycles'[Len(cycles')] = cycles[2]) =>
          /\ (ev'.op = "tags" /\ cycles[2].inventory = "ok") =>
                 UNCHANGED <<lastModels, OLLAMA_MODELS_TOTAL, OLLAMA_MODEL_INFO,
                             OLLAMA_MODEL_SIZE_BYTES, OLLAMA_MODEL_MODIFIED_TIMESTAMP>>
          /\ (ev'.op = "ps" /\ cycles[2].running = "ok") =>
                 UNCHANGED <<lastRunningModels, OLLAMA_RUNNING_MODELS,
                             OLLAMA_MODEL_MEMORY_BYTES>>]_vars

\* cycle k was answered with well-formed 2xx responses: the three bodies
\* were read and the two lists hold objects
Healthy(k) ==
    /\ AllRead(hist.ended[k].bodies)
    /\ ModelsList(hist.ended[k].bodies.tags)
    /\ ModelsList(hist.ended[k].bodies.ps)
\* cycle k was counted under status=success
Succeeded(k) ==
    ScrapesOf(hist.ended[k].after.scrapes, "success") >
        (IF k = 1 THEN 0 ELSE ScrapesOf(hist.ended[k - 1].after.scrapes, "success"))
\* cycles k and k + 1 read the same well-formed bodies, both ended in error,
\* and the second left the registry (the counters of scrapes_total, the
\* histogram and the timestamp set aside, none of which is read by a
\* cycle) and the snapshots as it found them: every later cycle answered
\* with these bodies does the same
StuckAt(k) ==
    /\ Healthy(k)
    /\ hist.ended[k + 1].bodies = hist.ended[k].bodies
    /\ ~Succeeded(k)
    /\ ~Succeeded(k + 1)
    /\ WithoutScrapes(hist.ended[k + 1].after) = WithoutScrapes(hist.ended[k].after)

\* C31: the engine does not stay in error for ever under a healthy
\* upstream: no cycle answered with well-formed 2xx responses ends in error
\* leaving a state from which the next cycle, answered the same, ends in
\* error in that same state.
C31_HealthyUpstreamRecovers ==
    \A k \in 1..(Len(hist.ended) - 1) : ~StuckAt(k)

====
